---- MODULE Spec2Model ----
(***************************************************************************)
(* Remote fleet installation and deployment orchestrator of               *)
(* openclaw-wizard (backend/src/services): the single-server installation *)
(* pipeline (remote.rs), the per-server deploy worker with its forwarding *)
(* task and the multi-server orchestrator (multi_server.rs), and the      *)
(* rollback saga in its remote (multi_server.rs) and local (rollback.rs)  *)
(* variants.                                                              *)
(*                                                                         *)
(* Three specifications share the module:                                 *)
(*   SpecWorker    one deploy_single_server run, stage by stage, with its *)
(*                 private channel, forwarding task, the aggregate        *)
(*                 channel and the websocket consumer;                    *)
(*   SpecDeploy    deploy_to_servers over a registry, one task per        *)
(*                 selected target;                                       *)
(*   SpecRollback  rollback_server, with add_server and remove_server     *)
(*                 requests served between its steps, and rollback_local. *)
(***************************************************************************)
EXTENDS Integers, Sequences, FiniteSets, TLC

VARIABLES
    \* ---- install_openclaw_remote (one pipeline run) ----
    hostOk,          \* the target's host and user pass validate_host / validate_username
    pipePc,          \* [phase, stage]: where the pipeline future is suspended
    started,         \* history: stage functions entered, in order
    cmdLog,          \* history: Session Gateway calls made and their results, in order
    progressLog,     \* history: every send_progress call, in order
    psChan,          \* content of the private (per-server) mpsc channel
    psRxOpen,        \* the private channel's receiver still exists
    pipeResult,      \* "none" while running, "ok", or the error returned
    node_check,      \* <<r>>: stage_ensure_node's node_check, while it is read
    failedStage,     \* history: the stage function whose failure ended the run
    failMark,        \* history: Len(progressLog) when that failure was observed
    \* ---- deploy_single_server: forwarding task and result ----
    fwdPc,           \* "recv" | "send" | "done" | "stopped"
    fwdHold,         \* <<e>>: the relabelled event the forwarding task is sending
    completedStages, \* the forwarding task's completed_stages
    aggChan,         \* content of the aggregate mpsc channel
    sinkOpen,        \* the aggregate channel's receiver still exists
    deployResult,    \* <<r>>: the ServerDeployResult, once produced
    \* ---- server registry file ----
    registry,        \* servers.json: sequence of ServerTarget
    \* ---- deploy_to_servers ----
    dpPc,            \* "idle" | "join" | "returned"
    requested,       \* server_ids of the request
    targets,         \* the selected targets, in registry order
    task,            \* per target: "spawned" | "running" | "joined"
    outcome,         \* per target: the pipeline's outcome once it has run
    relayed,         \* per target: events its forwarding task put on the aggregate channel
    backlog,         \* events in the aggregate channel the consumer has not taken yet
    results,         \* the batch being collected
    saves,           \* history: number of times the deploy has written servers.json
    fileLog,         \* history: the results of the deploy's load_servers and save_servers calls, in order
    \* ---- rollback_server ----
    rbPc,            \* "off" | "idle" | a stage | "reload" | "save" | "done" | "notfound"
    rbId,            \* the id rollback_server was called with
    rbFirst,         \* history: <<f>>, the registry file rollback_server loaded first
    rbServer,        \* <<s>>: the entry found by the first load
    rbCompleted,     \* completed_stages
    rbLastError,     \* last_error
    rbAttempts,      \* history: the exec_remote calls made and their results, in order
    rbAll,           \* all_servers: the list loaded before the status update
    rbPrior,         \* history: <<[file, loaded]>>, the registry file and all_servers when the save begins
    rbResult,        \* <<r>>: the ServerDeployResult returned
    \* ---- rollback_local ----
    localPc,         \* "off" | "idle" | a stage | "finish" | "done"
    machine,         \* the local machine: HOME set, processes, files present, package and npm
    localPrev,       \* history: the result of the previous rollback_local call, if any
    stages,          \* the three RollbackStage records
    localAttempts,   \* history: the stages rollback_local has gone through, in order
    localRuns,       \* history: number of rollback_local calls
    localResult,     \* <<r>>: the RollbackResult returned
    \* ---- the aggregate stream of several workers ----
    stTx,            \* per worker: its pipeline still holds per_server_tx
    stSent,          \* per worker, history: the events its pipeline has emitted, in order
    stChan,          \* per worker: the private channel
    stFwd,           \* per worker: forwarding task at "recv" | "send" | "done"
    stHold,          \* per worker: <<progress>> taken by the forwarding task and not sent yet
    stAgg,           \* history: what the forwarding tasks have put on the aggregate channel
    stSink,          \* the consumer still holds the aggregate receiver
    \* ---- one call of the Session Gateway ----
    gwPc,            \* "off" | "idle" | "connecting" | "done"
    gwOp,            \* the function called
    gwHost,          \* host, a sequence of characters
    gwUser,          \* user, a sequence of characters
    gwCommand,       \* the command is not the empty string
    gwSessions,      \* history: the connection strings handed to Session::connect
    gwFailure,       \* history: <<k>>, why Session::connect failed, if it did
    gwResult,        \* <<r>>: what the call returned
    \* ---- one websocket progress stream ----
    wsPc,            \* "off" | "wait" | "config" | "streaming" | "closed"
    wsStream,        \* "remote" (/ws/remote/install) | "multi" (/ws/multi-server/deploy)
    wsFirst,         \* the first message the client sends
    wsOut,           \* history: the stages of the events written to the socket
    wsStarted,       \* the pipeline (or the deploy) has been spawned
    \* ---- the directory of the registry file, and the calls saving to it ----
    inodes,          \* the files: inodes[n] is the content of file n, in chunks
    dirJson,         \* the file named servers.json (0: no such name)
    dirTmp,          \* the file named servers.tmp (0: no such name)
    svPc,            \* svPc[s]: where the s-th write_text call is
    svFd,            \* svFd[s]: the file its handle is open on
    svOff,           \* svOff[s]: the chunks it has written through the handle
    \* ---- the registry operations, called side by side ----
    apiFile,         \* servers.json exists
    clock,             \* SystemTime::now(), in milliseconds
    apiPc,           \* apiPc[c]: "off" | "idle" | "load" | "await" | "save"
    apiCall,         \* apiCall[c]: the operation caller c is in, and its arguments
    apiLoaded,       \* apiLoaded[c]: what its last load_servers returned
    apiLocal,        \* apiLocal[c]: its local list (servers, targets, all_servers)
    apiOps,          \* operations called so far
    apiLog,          \* history: what the operations did, in order
    \* ---- the text of servers.json ----
    cdFile,          \* <<text>>: the characters of servers.json; <<>>: no file
    cdSaved,         \* <<list>>: the list save_servers wrote the file from
    cdList,          \* <<list>>: what the last load_servers returned, if Ok
    cdLast,          \* the last call: "" | "load" | "save" | "save_loaded"
    \* ---- stream_remote_command and the remote command it runs ----
    scStdout,        \* the lines the remote command has written to stdout
    scStderr,        \* the lines it has written to stderr
    scExit,          \* <<status>> once it has ended (status: <<code>>, or <<>> for a signal)
    scPc,            \* "off" | "output" | "send" | "done" (Ok) | "failed" (Err)
    scOutput,        \* <<o>>: what session.command(..).output() returned
    scNext,          \* the next line to send on tx
    scChan,          \* content of the line channel
    scRxOpen,        \* the caller still holds line_rx
    scLines,         \* history: what line_rx.recv() has yielded, in order
    scResult,        \* <<r>>: the CommandOutput stream_remote_command returned
    \* ---- enforce_vt_rate_limit, called side by side ----
    vtClock,         \* SystemTime::now(), in milliseconds since the epoch
    LAST_VT_REQUEST, \* the static of skills.rs
    vtPc,            \* vtPc[c]: "off" | "idle" | "load" | "sleep" | "stamp" | "store" | "done"
    vtNow,           \* vtNow[c]: the call's now_ms, then its updated_now
    vtWake,          \* vtWake[c]: when its sleep is over
    vtLog,           \* history: the calls entered (with now_ms) and returned (with the stamp)
    \* ---- analyze_error, called side by side ----
    anClock,         \* SystemTime::now(), in seconds since the epoch
    LAST_ANALYSIS,   \* the static of log_analyzer.rs
    anPc,            \* anPc[c]: "off" | "idle" | "load" | "store"
    anNow,           \* anNow[c]: the call's now
    anCalls,         \* calls made so far
    anLog,           \* history: calls entered, admitted, rejected and panicked, in order
    \* ---- a worker, its channels and their consumer, as counts ----
    bpMode,          \* "off" | "multi" (deploy_to_servers) | "single" (remote install route)
    bpPipe,          \* install_openclaw_remote: "run" | "sending" | "returned"
    bpPerServer,     \* events queued in the per-server channel
    bpRxOpen,        \* per_server_rx is held by the forwarding task
    bpFwd,           \* forwarding task: "none" | "recv" | "send" | "done" | "stopped"
    bpAgg,           \* events queued in the channel the websocket handler reads
    bpSink,          \* the handler's loop: "open" | "dropped" (break) | "ended" (recv gave None)
    bpDeploy         \* deploy_to_servers: "none" | "join" | "joined" | "returned"

pipeVars == <<hostOk, pipePc, started, cmdLog, progressLog, psChan, psRxOpen,
              pipeResult, node_check, failedStage, failMark>>
fwdVars == <<fwdPc, fwdHold, completedStages, deployResult>>
aggVars == <<aggChan, sinkOpen>>
deployVars == <<dpPc, requested, targets, task, outcome, relayed, backlog, results, saves,
                fileLog>>
rbVars == <<rbPc, rbId, rbFirst, rbServer, rbCompleted, rbLastError, rbAttempts, rbAll, rbPrior,
            rbResult>>
localVars == <<localPc, machine, localPrev, stages, localAttempts, localRuns, localResult>>
streamVars == <<stTx, stSent, stChan, stFwd, stHold, stAgg, stSink>>
gwVars == <<gwPc, gwOp, gwHost, gwUser, gwCommand, gwSessions, gwFailure, gwResult>>
wsVars == <<wsPc, wsStream, wsFirst, wsOut, wsStarted>>
fsVars == <<inodes, dirJson, dirTmp, svPc, svFd, svOff>>
cdVars == <<cdFile, cdSaved, cdList, cdLast>>
apiVars == <<apiFile, clock, apiPc, apiCall, apiLoaded, apiLocal, apiOps, apiLog>>
scVars == <<scStdout, scStderr, scExit, scPc, scOutput, scNext, scChan, scRxOpen, scLines,
            scResult>>
vtVars == <<vtClock, LAST_VT_REQUEST, vtPc, vtNow, vtWake, vtLog>>
anVars == <<anClock, LAST_ANALYSIS, anPc, anNow, anCalls, anLog>>
bpVars == <<bpMode, bpPipe, bpPerServer, bpRxOpen, bpFwd, bpAgg, bpSink, bpDeploy>>
vars == <<pipeVars, fwdVars, aggVars, registry, deployVars, rbVars, localVars, streamVars,
          gwVars, wsVars, fsVars, apiVars, cdVars,
                scVars, vtVars, anVars, bpVars>>

(***************************************************************************)
(* Bounds of the model                                                     *)
(***************************************************************************)
\* lines a streamed remote command prints
MaxLines == 1
\* entries of the registry a deploy starts from, when it is not empty
MaxFleet == 6
\* entries the registry holds at most while a rollback runs
MaxReg == 2
\* calls of rollback_local in a row
MaxRuns == 2
\* events one pipeline emits on its private channel in SpecStream
MaxEvents == 2
\* characters of a host or user handed to the Session Gateway
MaxName == 2
\* write calls write_all needs for the content of the registry file
MaxChunks == 2
\* registry operations called in one run of SpecApi
MaxOps == 3
\* characters of a field of a ServerTarget in SpecCodec
MaxText == 1

(***************************************************************************)
(* Program constants                                                       *)
(***************************************************************************)
MAX_PARALLEL_DEPLOYMENTS == 5
CHANNEL_CAPACITY == 100
MIN_NODE_MAJOR == 22

None == "none"

(***************************************************************************)
(* Sequence helpers                                                        *)
(***************************************************************************)
RECURSIVE SelectSeqBy(_, _)
\* Iterator::filter over a sequence, for a set of accepted elements
SelectSeqBy(s, keep) ==
    IF s = <<>> THEN <<>>
    ELSE IF Head(s) \in keep THEN <<Head(s)>> \o SelectSeqBy(Tail(s), keep)
         ELSE SelectSeqBy(Tail(s), keep)

\* Iterator::take(n)
Take(s, n) == IF Len(s) <= n THEN s ELSE SubSeq(s, 1, n)

Range(s) == {s[i] : i \in 1..Len(s)}

IsPrefix(s, t) == Len(s) <= Len(t) /\ s = SubSeq(t, 1, Len(s))

\* n copies of x
Repeat(x, n) == [i \in 1..n |-> x]

(***************************************************************************)
(* parse_node_major: version strings are sequences of characters           *)
(***************************************************************************)
Digits == <<"0", "1", "2", "3", "4", "5", "6", "7", "8", "9">>

DigitValue(c) == (CHOOSE i \in 1..10 : Digits[i] = c) - 1

IsDigit(c) == \E i \in 1..10 : Digits[i] = c

RECURSIVE TrimStart(_, _)
\* str::trim_start_matches(c) (and the leading half of trim, for c = " ")
TrimStart(s, c) ==
    IF s # <<>> /\ Head(s) = c THEN TrimStart(Tail(s), c) ELSE s

RECURSIVE TrimEnd(_, _)
TrimEnd(s, c) ==
    IF s # <<>> /\ s[Len(s)] = c THEN TrimEnd(SubSeq(s, 1, Len(s) - 1), c) ELSE s

Trim(s) == TrimEnd(TrimStart(s, " "), " ")

RECURSIVE FirstField(_)
\* split('.').next(): the text before the first '.'
FirstField(s) ==
    IF s = <<>> \/ Head(s) = "." THEN <<>> ELSE <<Head(s)>> \o FirstField(Tail(s))

RECURSIVE DecimalValue(_, _)
DecimalValue(s, acc) ==
    IF s = <<>> THEN acc ELSE DecimalValue(Tail(s), 10 * acc + DigitValue(Head(s)))

\* str::parse::<u32>(): -1 stands for None. An optional leading '+' is accepted.
\* The probe outputs of the model have few digits, so the overflow case of
\* parse (a value above u32::MAX) does not arise.
ParseU32(s) ==
    LET body == IF s # <<>> /\ Head(s) = "+" THEN Tail(s) ELSE s
    IN  IF body = <<>> \/ \E i \in 1..Len(body) : ~IsDigit(body[i]) THEN -1
        ELSE DecimalValue(body, 0)

ParseNodeMajor(version_str) == ParseU32(FirstField(TrimStart(Trim(version_str), "v")))

\* what `node --version` may print
ProbeOutputs ==
    { <<"v", "2", "2", ".", "1">>, <<"v", "1", "8", ".", "0">>, <<"2", "3">>,
      <<" ", "v", "2", "2", " ">>, <<"n", "o">>, <<>> }

\* NeedsInstall that looks only at whether the probe succeeded, not at the
\* version it printed
NeedsInstallWhenAbsent(probe, out) == probe # "ok"

\* stage_ensure_node's needs_install, from the probe's result
NeedsInstall(probe, out) ==
    IF probe = "ok"
    THEN LET major == ParseNodeMajor(Trim(out))
         IN  ~(major # -1 /\ major >= MIN_NODE_MAJOR)
    ELSE TRUE

(***************************************************************************)
(* Session Gateway (ssh.rs): what a call may return                        *)
(***************************************************************************)
\* check_connection: Ok(true) | Ok(false) | Err; validation fails first
ConnOutcomes(valid) == IF valid THEN {"true", "false", "err"} ELSE {"err"}

\* exec_remote / stream_remote_command: Ok with exit code 0, Ok with another
\* exit code, or Err (validation, connect or execution)
ExecOutcomes(valid) == IF valid THEN {"ok", "nonzero", "err"} ELSE {"err"}

(***************************************************************************)
(* install_openclaw_remote (remote.rs)                                     *)
(***************************************************************************)
StageOrder ==
    <<"connection", "node", "openclaw", "config", "daemon_install", "daemon_start",
      "complete">>

StageIndex(s) == CHOOSE i \in 1..Len(StageOrder) : StageOrder[i] = s

\* the stage name a stage function puts in its progress events
EventStage(s) == IF s \in {"daemon_install", "daemon_start"} THEN "daemon" ELSE s

Ev(stage, status) == [stage |-> stage, status |-> status]

At(phase, stage) == [phase |-> phase, stage |-> stage]

Returned == At("returned", "none")

\* AfterStage without the `?`: the next stage is entered whatever the result
AfterStageNoAbort(s, ok) == At("begin", StageOrder[StageIndex(s) + 1])

\* AfterStage of a pipeline that gives up once its progress receiver is gone
AfterStageCancelled(s, ok) ==
    IF ok /\ psRxOpen THEN At("begin", StageOrder[StageIndex(s) + 1]) ELSE Returned

\* the `?` after each stage call: the next stage on Ok, return on Err
AfterStage(s, ok) ==
    IF ok THEN At("begin", StageOrder[StageIndex(s) + 1]) ELSE Returned

\* what a step of the worker leaves alone
OutsideWorker ==
    UNCHANGED <<registry, deployVars, rbVars, localVars, streamVars, gwVars, wsVars, fsVars, apiVars, cdVars,
                scVars, vtVars, anVars, bpVars>>

\* what a step of the pipeline leaves alone
PipeFrame == UNCHANGED <<fwdVars, aggVars>> /\ OutsideWorker

\* send_progress, for the events evs in order: a send to a dropped receiver
\* fails and is only logged; a send to a full channel waits
SendProgress(evs) ==
    /\ psRxOpen => Len(psChan) + Len(evs) <= CHANNEL_CAPACITY
    /\ progressLog' = progressLog \o evs
    /\ psChan' = IF psRxOpen THEN psChan \o evs ELSE psChan

\* a Session Gateway call and what it returned
Call(cmd, result) == [cmd |-> cmd, result |-> result]

\* A stage's remote call has returned: the stage sends `pre` (streamed
\* lines), then `post`, and succeeds (ok) or returns Err(tag).
StageReturn(s, call, pre, post, ok, tag) ==
    /\ cmdLog' = Append(cmdLog, call)
    /\ SendProgress(pre \o post)
    /\ pipePc' = AfterStage(s, ok)
    /\ IF ok
       THEN UNCHANGED <<pipeResult, failedStage, failMark>>
       ELSE /\ pipeResult' = tag
            /\ failedStage' = s
            /\ failMark' = Len(progressLog) + Len(pre)
    /\ UNCHANGED <<hostOk, node_check, started, psRxOpen>>
    /\ PipeFrame

\* A stage function is entered: its first in_progress event, then its
\* remote call is awaited.
StageBegin ==
    /\ pipePc.phase = "begin"
    /\ pipePc.stage # "complete"
    /\ started' = Append(started, pipePc.stage)
    /\ SendProgress(<<Ev(EventStage(pipePc.stage), "in_progress")>>)
    /\ pipePc' = At("wait", pipePc.stage)
    /\ UNCHANGED <<hostOk, node_check, cmdLog, psRxOpen, pipeResult, failedStage, failMark>>
    /\ PipeFrame

\* stage_check_connection, after check_connection has returned r
CheckConnection ==
    /\ pipePc = At("wait", "connection")
    /\ \E r \in ConnOutcomes(hostOk) :
        CASE r = "true" ->
               StageReturn("connection", Call("check_connection", r), <<>>,
                           <<Ev("connection", "completed")>>, TRUE, "ok")
          [] r = "false" ->
               StageReturn("connection", Call("check_connection", r), <<>>,
                           <<Ev("connection", "failed")>>, FALSE, "AuthenticationFailed")
          [] OTHER ->
               StageReturn("connection", Call("check_connection", r), <<>>,
                           <<Ev("connection", "failed")>>, FALSE, "ConnectionFailed")

\* exec_remote's Result<CommandOutput> for the version probe: Err carries
\* no output
NodeCheck(probe, out) ==
    [result |-> probe, stdout |-> IF probe = "err" THEN <<>> ELSE out]

\* needs_install for each result the probe may return
NeedsInstallOf ==
    [probe \in ExecOutcomes(TRUE), out \in ProbeOutputs |-> NeedsInstall(probe, out)]

\* stage_ensure_node: the version probe returns into node_check
NodeProbe ==
    /\ pipePc = At("wait", "node")
    /\ \E probe \in ExecOutcomes(hostOk), out \in ProbeOutputs :
        /\ node_check' = <<NodeCheck(probe, out)>>
        /\ cmdLog' = Append(cmdLog, Call("node_version", probe))
    /\ pipePc' = At("probed", "node")
    /\ UNCHANGED <<hostOk, started, progressLog, psChan, psRxOpen, pipeResult,
                   failedStage, failMark>>
    /\ PipeFrame

\* stage_ensure_node: the match on node_check. Either the completed event
\* and Ok(()), or install_node_via_nvm starts streaming the bootstrap
\* script; node_check is not read again.
NodeDecide ==
    /\ pipePc = At("probed", "node")
    /\ \E probe \in ExecOutcomes(hostOk), out \in ProbeOutputs :
        /\ node_check = <<NodeCheck(probe, out)>>
        /\ IF NeedsInstallOf[probe, out]
           THEN /\ SendProgress(<<Ev("node", "in_progress")>>)
                /\ pipePc' = At("install", "node")
           ELSE /\ SendProgress(<<Ev("node", "completed")>>)
                /\ pipePc' = AfterStage("node", TRUE)
    /\ node_check' = <<>>
    /\ UNCHANGED <<hostOk, started, cmdLog, psRxOpen, pipeResult, failedStage, failMark>>
    /\ PipeFrame

\* Streamed without the bail! of the non-zero branch: the failed event is
\* sent and the stage returns Ok
StreamedNoBail(s, cmd, r, n, tag) ==
    LET lines == Repeat(Ev(EventStage(s), "in_progress"), n)
    IN  CASE r = "ok" ->
               StageReturn(s, Call(cmd, r), lines, <<Ev(EventStage(s), "completed")>>,
                           TRUE, "ok")
          [] r = "nonzero" ->
               StageReturn(s, Call(cmd, r), lines, <<Ev(EventStage(s), "failed")>>,
                           TRUE, "ok")
          [] OTHER ->
               StageReturn(s, Call(cmd, r), <<>>, <<Ev(EventStage(s), "failed")>>,
                           FALSE, tag)

\* a streamed command has ended with result r after printing n lines, each
\* forwarded as an in_progress event of `stage`
Streamed(s, cmd, r, n, tag) ==
    LET lines == Repeat(Ev(EventStage(s), "in_progress"), n)
    IN  CASE r = "ok" ->
               StageReturn(s, Call(cmd, r), lines, <<Ev(EventStage(s), "completed")>>,
                           TRUE, "ok")
          [] r = "nonzero" ->
               StageReturn(s, Call(cmd, r), lines, <<Ev(EventStage(s), "failed")>>,
                           FALSE, tag)
          [] OTHER ->
               StageReturn(s, Call(cmd, r), <<>>, <<Ev(EventStage(s), "failed")>>,
                           FALSE, tag)

\* install_node_via_nvm, after the streamed bootstrap has ended
NodeInstall ==
    /\ pipePc = At("install", "node")
    /\ \E r \in ExecOutcomes(hostOk), n \in 0..MaxLines :
        Streamed("node", "nvm_install", r, n, "RuntimeInstallFailed")

\* stage_install_openclaw, after the streamed package install has ended
InstallOpenclaw ==
    /\ pipePc = At("wait", "openclaw")
    /\ \E r \in ExecOutcomes(hostOk), n \in 0..MaxLines :
        Streamed("openclaw", "npm_install", r, n, "ApplicationInstallFailed")

\* a buffered exec_remote of stage s has returned r: `.context(..)?` returns
\* an Err at once, a non-zero exit code sends a failed event first
\* Executed that sends a completed event of the stage on exit code 0,
\* whatever event the stage function sends there
ExecutedCompleting(s, cmd, r, okEvent, tag) ==
    CASE r = "ok" ->
           StageReturn(s, Call(cmd, r), <<>>, <<Ev(EventStage(s), "completed")>>, TRUE, "ok")
      [] r = "nonzero" ->
           StageReturn(s, Call(cmd, r), <<>>, <<Ev(EventStage(s), "failed")>>, FALSE, tag)
      [] OTHER -> StageReturn(s, Call(cmd, r), <<>>, <<>>, FALSE, tag)

Executed(s, cmd, r, okEvent, tag) ==
    CASE r = "ok" -> StageReturn(s, Call(cmd, r), <<>>, <<okEvent>>, TRUE, "ok")
      [] r = "nonzero" ->
           StageReturn(s, Call(cmd, r), <<>>, <<Ev(EventStage(s), "failed")>>, FALSE, tag)
      [] OTHER -> StageReturn(s, Call(cmd, r), <<>>, <<>>, FALSE, tag)

\* stage_write_config, after the heredoc write has returned
WriteConfig ==
    /\ pipePc = At("wait", "config")
    /\ \E r \in ExecOutcomes(hostOk) :
        Executed("config", "write_config", r, Ev("config", "completed"),
                 "ConfigWriteFailed")

\* stage_install_daemon, after `openclaw install-daemon` has returned
InstallDaemon ==
    /\ pipePc = At("wait", "daemon_install")
    /\ \E r \in ExecOutcomes(hostOk) :
        Executed("daemon_install", "install_daemon", r, Ev("daemon", "in_progress"),
                 "ServiceInstallFailed")

\* stage_start_daemon, after `openclaw start` has returned
StartDaemon ==
    /\ pipePc = At("wait", "daemon_start")
    /\ \E r \in ExecOutcomes(hostOk) :
        Executed("daemon_start", "start_daemon", r, Ev("daemon", "completed"),
                 "ServiceStartFailed")

\* stage 7: the completion event, then Ok(())
Complete ==
    /\ pipePc = At("begin", "complete")
    /\ started' = Append(started, "complete")
    /\ SendProgress(<<Ev("complete", "completed")>>)
    /\ pipeResult' = "ok"
    /\ pipePc' = Returned
    /\ UNCHANGED <<hostOk, node_check, cmdLog, psRxOpen, failedStage, failMark>>
    /\ PipeFrame

Pipeline ==
    \/ StageBegin
    \/ CheckConnection
    \/ NodeProbe
    \/ NodeDecide
    \/ NodeInstall
    \/ InstallOpenclaw
    \/ WriteConfig
    \/ InstallDaemon
    \/ StartDaemon
    \/ Complete

PipelineInit ==
    /\ pipePc = At("begin", "connection")
    /\ started = <<>>
    /\ cmdLog = <<>>
    /\ progressLog = <<>>
    /\ psChan = <<>>
    /\ psRxOpen = TRUE
    /\ pipeResult = None
    /\ node_check = <<>>
    /\ failedStage = None
    /\ failMark = -1

(***************************************************************************)
(* deploy_single_server (multi_server.rs): forwarding task and result      *)
(***************************************************************************)
\* the id of the target this worker deploys
WorkerId == "srv-1"

\* the forwarding task's relabelling of a private event
Relabel(id, ev) == [server_id |-> id, stage |-> ev.stage, status |-> ev.status]

\* completed_stages after the forwarding task has received ev
PushCompleted(done, ev) ==
    IF ev.status = "completed" THEN Append(done, ev.stage) ELSE done

\* per_server_rx.recv() yields an event: it is recorded, relabelled, and the
\* send on the aggregate channel is started
FwdRecv ==
    /\ fwdPc = "recv"
    /\ psChan # <<>>
    /\ psChan' = Tail(psChan)
    /\ completedStages' = PushCompleted(completedStages, Head(psChan))
    /\ fwdHold' = <<Relabel(WorkerId, Head(psChan))>>
    /\ fwdPc' = "send"
    /\ UNCHANGED <<hostOk, node_check, pipePc, started, cmdLog, progressLog, psRxOpen, pipeResult,
                   failedStage, failMark, deployResult, aggVars>>
    /\ OutsideWorker

\* fwd_tx.send(..).await: the event enters the aggregate channel, or the
\* receiver is gone and the task breaks, dropping per_server_rx
FwdSend ==
    /\ fwdPc = "send"
    /\ IF sinkOpen
       THEN /\ Len(aggChan) < CHANNEL_CAPACITY
            /\ aggChan' = aggChan \o fwdHold
            /\ fwdPc' = "recv"
            /\ UNCHANGED <<psChan, psRxOpen>>
       ELSE /\ fwdPc' = "stopped"
            /\ psRxOpen' = FALSE
            /\ psChan' = <<>>
            /\ UNCHANGED aggChan
    /\ fwdHold' = <<>>
    /\ UNCHANGED <<hostOk, node_check, pipePc, started, cmdLog, progressLog, pipeResult, failedStage,
                   failMark, completedStages, deployResult, sinkOpen>>
    /\ OutsideWorker

\* recv() yields None: the pipeline has returned (its sender is dropped) and
\* the channel is drained
FwdClosed ==
    /\ fwdPc = "recv"
    /\ psChan = <<>>
    /\ pipePc = Returned
    /\ fwdPc' = "done"
    /\ psRxOpen' = FALSE
    /\ UNCHANGED <<hostOk, node_check, pipePc, started, cmdLog, progressLog, psChan, pipeResult,
                   failedStage, failMark, fwdHold, completedStages, deployResult, aggVars>>
    /\ OutsideWorker

\* the ServerDeployResult built from the pipeline's result and the joined
\* forwarding task
MakeResult(id, res, done) ==
    [server_id |-> id,
     success |-> (res = "ok"),
     error |-> IF res = "ok" THEN None ELSE res,
     completed_stages |-> done]

\* WorkerResult of a worker that does not await forward_handle
WorkerResultNoJoin ==
    /\ deployResult = <<>>
    /\ pipePc = Returned
    /\ deployResult' = <<MakeResult(WorkerId, pipeResult, completedStages)>>
    /\ UNCHANGED <<pipeVars, fwdPc, fwdHold, completedStages, aggVars>>
    /\ OutsideWorker

\* forward_handle.await has returned after the pipeline: the result is built
WorkerResult ==
    /\ deployResult = <<>>
    /\ pipePc = Returned
    /\ fwdPc \in {"done", "stopped"}
    /\ deployResult' = <<MakeResult(WorkerId, pipeResult, completedStages)>>
    /\ UNCHANGED <<pipeVars, fwdPc, fwdHold, completedStages, aggVars>>
    /\ OutsideWorker

(***************************************************************************)
(* handle_multi_server_deploy_socket (routes/multi_server.rs): the         *)
(* consumer of the aggregate channel                                       *)
(***************************************************************************)
\* rx.recv() yields an event and it is written to the websocket; when that
\* write fails the loop breaks and the receiver is dropped
ConsumerRecv ==
    /\ sinkOpen
    /\ aggChan # <<>>
    /\ \E socketOk \in BOOLEAN :
        IF socketOk
        THEN aggChan' = Tail(aggChan) /\ UNCHANGED sinkOpen
        ELSE aggChan' = <<>> /\ sinkOpen' = FALSE

WorkerConsumerRecv ==
    /\ ConsumerRecv
    /\ UNCHANGED <<pipeVars, fwdVars>>
    /\ OutsideWorker

FwdInit ==
    /\ fwdPc = "recv"
    /\ fwdHold = <<>>
    /\ completedStages = <<>>
    /\ deployResult = <<>>

AggInit ==
    /\ aggChan = <<>>
    /\ sinkOpen = TRUE

\* the parts of the state a specification does not use stay as they are here
DeployIdle ==
    /\ dpPc = "idle"
    /\ requested = {}
    /\ targets = <<>>
    /\ task = <<>>
    /\ outcome = <<>>
    /\ relayed = <<>>
    /\ backlog = 0
    /\ results = <<>>
    /\ saves = 0
    /\ fileLog = <<>>

RollbackIdle ==
    /\ rbPc = "off"
    /\ rbId = 0
    /\ rbFirst = <<>>
    /\ rbServer = <<>>
    /\ rbCompleted = <<>>
    /\ rbLastError = None
    /\ rbAttempts = <<>>
    /\ rbAll = <<>>
    /\ rbPrior = <<>>
    /\ rbResult = <<>>

LocalIdle ==
    /\ localPc = "off"
    /\ machine = [home |-> TRUE, running |-> FALSE, lookalike |-> FALSE,
                  config |-> FALSE, env |-> FALSE, installed |-> FALSE, npm |-> TRUE]
    /\ localPrev = <<>>
    /\ stages = <<>>
    /\ localAttempts = <<>>
    /\ localRuns = 0
    /\ localResult = <<>>

PressureIdle ==
    /\ bpMode = "off"
    /\ bpPipe = "returned"
    /\ bpPerServer = 0
    /\ bpRxOpen = FALSE
    /\ bpFwd = "none"
    /\ bpAgg = 0
    /\ bpSink = "open"
    /\ bpDeploy = "none"

AnalysisIdle ==
    /\ anClock = 0
    /\ LAST_ANALYSIS = 0
    /\ anPc = <<>>
    /\ anNow = <<>>
    /\ anCalls = 0
    /\ anLog = <<>>

LimiterIdle ==
    /\ vtClock = 0
    /\ LAST_VT_REQUEST = 0
    /\ vtPc = <<>>
    /\ vtNow = <<>>
    /\ vtWake = <<>>
    /\ vtLog = <<>>

CommandIdle ==
    /\ scStdout = <<>>
    /\ scStderr = <<>>
    /\ scExit = <<>>
    /\ scPc = "off"
    /\ scOutput = <<>>
    /\ scNext = 1
    /\ scChan = <<>>
    /\ scRxOpen = FALSE
    /\ scLines = <<>>
    /\ scResult = <<>>

CodecIdle ==
    /\ cdFile = <<>>
    /\ cdSaved = <<>>
    /\ cdList = <<>>
    /\ cdLast = ""

ApiIdle ==
    /\ apiFile = TRUE
    /\ clock = 0
    /\ apiPc = <<>>
    /\ apiCall = <<>>
    /\ apiLoaded = <<>>
    /\ apiLocal = <<>>
    /\ apiOps = 0
    /\ apiLog = <<>>

SaveIdle ==
    /\ inodes = <<>>
    /\ dirJson = 0
    /\ dirTmp = 0
    /\ svPc = <<>>
    /\ svFd = <<>>
    /\ svOff = <<>>

SocketIdle ==
    /\ wsPc = "off"
    /\ wsStream = ""
    /\ wsFirst = [kind |-> "none"]
    /\ wsOut = <<>>
    /\ wsStarted = FALSE

GatewayIdle ==
    /\ gwPc = "off"
    /\ gwOp = ""
    /\ gwHost = <<>>
    /\ gwUser = <<>>
    /\ gwCommand = FALSE
    /\ gwSessions = <<>>
    /\ gwFailure = <<>>
    /\ gwResult = <<>>

StreamIdle ==
    /\ stTx = <<>>
    /\ stSent = <<>>
    /\ stChan = <<>>
    /\ stFwd = <<>>
    /\ stHold = <<>>
    /\ stAgg = <<>>
    /\ stSink = FALSE

(***************************************************************************)
(* SpecWorker: one deploy_single_server run                                *)
(***************************************************************************)
WorkerInit ==
    /\ hostOk \in BOOLEAN
    /\ PipelineInit
    /\ FwdInit
    /\ AggInit
    /\ registry = <<>>
    /\ DeployIdle
    /\ RollbackIdle
    /\ LocalIdle
    /\ StreamIdle
    /\ GatewayIdle
    /\ SocketIdle
    /\ SaveIdle
    /\ ApiIdle
    /\ CodecIdle
    /\ CommandIdle
    /\ LimiterIdle
    /\ AnalysisIdle
    /\ PressureIdle

WorkerNext ==
    \/ StageBegin
    \/ CheckConnection
    \/ NodeProbe
    \/ NodeDecide
    \/ NodeInstall
    \/ InstallOpenclaw
    \/ WriteConfig
    \/ InstallDaemon
    \/ StartDaemon
    \/ Complete
    \/ FwdRecv
    \/ FwdSend
    \/ FwdClosed
    \/ WorkerResult
    \/ WorkerConsumerRecv

SpecWorker == WorkerInit /\ [][WorkerNext]_vars

\* the forwarding task as one process
Forwarder == FwdRecv \/ FwdSend \/ FwdClosed

\* SpecWorker with the runtime's scheduling: the pipeline, the forwarding
\* task and the worker are each polled whenever they can make a step, and
\* a remote call that is awaited returns. Nothing is asked of the consumer.
SpecWorkerFair ==
    /\ SpecWorker
    /\ WF_vars(Pipeline)
    /\ WF_vars(Forwarder)
    /\ WF_vars(WorkerResult)

(***************************************************************************)
(* Server registry (multi_server.rs)                                       *)
(*                                                                         *)
(* A ServerTarget is modelled by its id, its host (as whether it passes    *)
(* validate_host) and its status; name, username and key_path are not     *)
(* read by the operations below.                                           *)
(***************************************************************************)
Server(id, host, status) == [id |-> id, host |-> host, status |-> status]

\* FindFirst that settles for the first entry when no entry has the id
FindFirstOrHead(servers, id) ==
    IF \E i \in 1..Len(servers) : servers[i].id = id
    THEN CHOOSE i \in 1..Len(servers) :
            /\ servers[i].id = id
            /\ \A j \in 1..(i - 1) : servers[j].id # id
    ELSE IF servers = <<>> THEN 0 ELSE 1

\* servers.iter_mut().find(|s| s.id == id): the first entry with that id
FindFirst(servers, id) ==
    IF \E i \in 1..Len(servers) : servers[i].id = id
    THEN CHOOSE i \in 1..Len(servers) :
            /\ servers[i].id = id
            /\ \A j \in 1..(i - 1) : servers[j].id # id
    ELSE 0

\* if let Some(s) = find(id) { s.status = status }
SetStatus(servers, id, status) ==
    IF FindFirst(servers, id) = 0 THEN servers
    ELSE [servers EXCEPT ![FindFirst(servers, id)].status = status]

(***************************************************************************)
(* deploy_to_servers (multi_server.rs)                                     *)
(*                                                                         *)
(* Each selected target gets one task running deploy_single_server. Here   *)
(* a task is followed through three steps: spawned; running, once its      *)
(* pipeline has sent its first event and the forwarding task has tried to  *)
(* relay it; joined, once the pipeline has returned, the forwarding task   *)
(* is joined and join_next has taken the result. The stages in between are *)
(* SpecWorker's.                                                           *)
(***************************************************************************)
\* Targets without .take(MAX_PARALLEL_DEPLOYMENTS)
TargetsUncapped(servers, ids) ==
    SelectSeqBy(servers, {e \in Range(servers) : e.id \in ids})

\* Targets that keeps the last MAX_PARALLEL_DEPLOYMENTS matching entries
TargetsLastFive(servers, ids) ==
    LET all == SelectSeqBy(servers, {e \in Range(servers) : e.id \in ids})
        skip == IF Len(all) > MAX_PARALLEL_DEPLOYMENTS
                THEN Len(all) - MAX_PARALLEL_DEPLOYMENTS ELSE 0
    IN [t \in 1..(Len(all) - skip) |-> all[t + skip]]

\* servers.iter().filter(|s| server_ids.contains(&s.id))
\*        .take(MAX_PARALLEL_DEPLOYMENTS)
Targets(servers, ids) ==
    Take(SelectSeqBy(servers, {e \in Range(servers) : e.id \in ids}),
         MAX_PARALLEL_DEPLOYMENTS)

\* what a target's pipeline may return: an invalid host fails the
\* connection stage
PipelineOutcomes(host) ==
    IF host = "valid" THEN {"ok", "ConfigWriteFailed"}
    ELSE {"ConnectionFailed"}

\* the result of a task, without its completed_stages
TaskResult(target, res) ==
    [server_id |-> target.id,
     success |-> (res = "ok"),
     error |-> IF res = "ok" THEN None ELSE res]

\* Collect that keeps only the successful results
CollectSuccessOnly(batch, r) == IF r.success THEN Append(batch, r) ELSE batch

\* Ok(deploy_result) => results.push(deploy_result)
Collect(batch, r) == Append(batch, r)

RECURSIVE ApplyResults(_, _)
\* the status update loop over the results, in order
ApplyResults(servers, batch) ==
    IF batch = <<>> THEN servers
    ELSE ApplyResults(
             SetStatus(servers, Head(batch).server_id,
                       IF Head(batch).success THEN "deployed" ELSE "failed"),
             Tail(batch))

OutsideDeploy ==
    UNCHANGED <<pipeVars, fwdVars, aggChan, rbVars, localVars, streamVars, gwVars, wsVars, fsVars, apiVars, cdVars,
                scVars, vtVars, anVars, bpVars>>

\* what ConfigWriter::read_json and write_json can return
FileOutcomes == {"ok", "err"}

\* LoadServers that hands out the file's list whatever the read returned
LoadServersLenient(r, file) == <<file>>

\* load_servers: Ok(the list in the file) or Err
LoadServers(r, file) == IF r = "ok" THEN <<file>> ELSE <<>>

\* load_servers, and if it is Ok the selection of the targets and the
\* spawn loop; if it is Err, return vec![]
DeployStart ==
    /\ dpPc = "idle"
    /\ \E r \in FileOutcomes :
        LET servers == LoadServers(r, registry)
        IN /\ fileLog' = Append(fileLog, r)
           /\ IF servers = <<>>
              THEN /\ dpPc' = "returned"
                   /\ UNCHANGED <<targets, task, outcome, relayed>>
              ELSE /\ targets' = Targets(servers[1], requested)
                   /\ task' = [t \in 1..Len(targets') |-> "spawned"]
                   /\ outcome' = [t \in 1..Len(targets') |-> None]
                   /\ relayed' = [t \in 1..Len(targets') |-> 0]
                   /\ dpPc' = "join"
    /\ UNCHANGED <<registry, requested, backlog, results, saves, sinkOpen>>
    /\ OutsideDeploy

\* the pipeline of task t sends its first event (connection, in_progress);
\* the forwarding task relays it, or stops because the receiver is gone
TaskStart(t) ==
    /\ task[t] = "spawned"
    /\ task' = [task EXCEPT ![t] = "running"]
    /\ IF sinkOpen
       THEN /\ backlog < CHANNEL_CAPACITY
            /\ relayed' = [relayed EXCEPT ![t] = 1]
            /\ backlog' = backlog + 1
       ELSE UNCHANGED <<relayed, backlog>>
    /\ UNCHANGED <<registry, dpPc, requested, targets, outcome, results, saves, fileLog,
                   sinkOpen>>
    /\ OutsideDeploy

\* the pipeline of task t returns, its forwarding task is joined, and
\* join_next hands the result to the collecting loop
TaskFinish(t) ==
    /\ task[t] = "running"
    /\ \E res \in PipelineOutcomes(targets[t].host) :
        /\ outcome' = [outcome EXCEPT ![t] = res]
        /\ results' = Collect(results, TaskResult(targets[t], res))
    /\ task' = [task EXCEPT ![t] = "joined"]
    /\ UNCHANGED <<registry, dpPc, requested, targets, relayed, backlog, saves, fileLog,
                   sinkOpen>>
    /\ OutsideDeploy

\* join_next has returned None: the registry is reloaded and, if that is
\* Ok, the statuses of the results are set and the list is saved; the
\* result of save_servers is dropped. The batch is returned.
DeploySave ==
    /\ dpPc = "join"
    /\ \A t \in 1..Len(targets) : task[t] = "joined"
    /\ \E r \in FileOutcomes, w \in FileOutcomes :
        LET all_servers == LoadServers(r, registry)
        IN /\ fileLog' = IF all_servers = <<>> THEN Append(fileLog, r)
                         ELSE fileLog \o <<r, w>>
           /\ IF all_servers # <<>> /\ w = "ok"
              THEN /\ registry' = ApplyResults(all_servers[1], results)
                   /\ saves' = saves + 1
              ELSE UNCHANGED <<registry, saves>>
    /\ dpPc' = "returned"
    /\ UNCHANGED <<requested, targets, task, outcome, relayed, backlog, results, sinkOpen>>
    /\ OutsideDeploy

\* the websocket handler takes an event from the aggregate channel; a
\* failed websocket write ends its loop and drops the receiver
DeployConsumerRecv ==
    /\ sinkOpen
    /\ backlog > 0
    /\ \E socketOk \in BOOLEAN :
        IF socketOk
        THEN backlog' = backlog - 1 /\ UNCHANGED sinkOpen
        ELSE backlog' = 0 /\ sinkOpen' = FALSE
    /\ UNCHANGED <<registry, dpPc, requested, targets, task, outcome, relayed, results,
                   saves, fileLog>>
    /\ OutsideDeploy

\* the ids of the fleet: the n-th registered server has id n
FleetRegistry(n) ==
    [i \in 1..n |-> Server(i, IF i = 2 THEN "invalid" ELSE "valid", "pending")]

\* the requests: every step-th id from lo up to n + 1, an id that is not
\* registered
Requests(n) ==
    {{i \in lo..(n + 1) : (i - lo) % step = 0} : lo \in 1..(n + 2), step \in 1..2}

DeployInit ==
    /\ \E n \in {0, MaxFleet} :
        /\ registry = FleetRegistry(n)
        /\ requested \in Requests(n)
    /\ dpPc = "idle"
    /\ targets = <<>>
    /\ task = <<>>
    /\ outcome = <<>>
    /\ relayed = <<>>
    /\ backlog = 0
    /\ results = <<>>
    /\ saves = 0
    /\ fileLog = <<>>
    /\ sinkOpen = TRUE
    /\ aggChan = <<>>
    /\ hostOk = TRUE
    /\ PipelineInit
    /\ FwdInit
    /\ RollbackIdle
    /\ LocalIdle
    /\ StreamIdle
    /\ GatewayIdle
    /\ SocketIdle
    /\ SaveIdle
    /\ ApiIdle
    /\ CodecIdle
    /\ CommandIdle
    /\ LimiterIdle
    /\ AnalysisIdle
    /\ PressureIdle

DeployNext ==
    \/ DeployStart
    \/ \E t \in 1..Len(targets) : TaskStart(t)
    \/ \E t \in 1..Len(targets) : TaskFinish(t)
    \/ DeploySave
    \/ DeployConsumerRecv

SpecDeploy == DeployInit /\ [][DeployNext]_vars

(***************************************************************************)
(* Rollback saga: rollback_server (multi_server.rs) and rollback_local     *)
(* (rollback.rs)                                                           *)
(*                                                                         *)
(* rollback_server is followed from one await to the next. Its last part   *)
(* has no await, but the handlers run on the multi-threaded runtime of     *)
(* main.rs and nothing locks servers.json, so a registry call of another   *)
(* request can run between its load_servers and its save_servers; the two  *)
(* are separate steps. add_server and remove_server are the other          *)
(* requests; each is one step. Reading and writing the file itself is      *)
(* taken to succeed.                                                       *)
(***************************************************************************)
RollbackStages == <<"stop_daemon", "remove_config", "uninstall_openclaw">>

\* RollbackNextPc that gives up at the first stage that errored
RollbackNextPcAbort(s, r) ==
    IF r = "err" \/ s = "uninstall_openclaw" THEN "reload"
    ELSE IF s = "stop_daemon" THEN "remove_config" ELSE "uninstall_openclaw"

\* the statement after the match on a stage's exec_remote result
RollbackNextPc(s, r) ==
    IF s = "stop_daemon" THEN "remove_config"
    ELSE IF s = "remove_config" THEN "uninstall_openclaw"
    ELSE "reload"

\* generate_server_id: "srv-{timestamp:x}-{hash(timestamp):x}", a function
\* of the clock's milliseconds only
GenerateServerId(timestamp) == 1000 + timestamp

\* the ServerTarget values the add request carries; id 0 and status "" are
\* the empty strings
AddInputs == {Server(0, "valid", ""), Server(1, "valid", "deployed")}

\* the entries a registry holds when a rollback is requested; an id may be
\* there twice, add_server does not look for it
RegEntries ==
    {Server(1, "valid", "deployed"), Server(1, "invalid", "deployed"),
     Server(2, "valid", "connected")}

RECURSIVE SeqsUpTo(_, _)
\* the sequences over S of length at most n
SeqsUpTo(S, n) ==
    IF n = 0 THEN {<<>>}
    ELSE LET shorter == SeqsUpTo(S, n - 1)
         IN shorter \cup {Append(q, x) : q \in shorter, x \in S}

OutsideRollback ==
    UNCHANGED <<pipeVars, fwdVars, aggVars, deployVars, streamVars, gwVars, wsVars, fsVars, apiVars, cdVars,
                scVars, vtVars, anVars, bpVars>>

\* add_server, requested while the rollback is in progress
AddServer ==
    /\ rbPc \notin {"off", "idle", "done", "notfound"}
    /\ Len(registry) < MaxReg
    /\ \E server \in AddInputs, now \in 0..1 :
        LET withId == IF server.id = 0
                      THEN [server EXCEPT !.id = GenerateServerId(now)]
                      ELSE server
            withStatus == IF withId.status = ""
                          THEN [withId EXCEPT !.status = "pending"]
                          ELSE withId
        IN registry' = Append(registry, withStatus)
    /\ UNCHANGED <<rbVars, localVars>>
    /\ OutsideRollback

\* remove_server, requested while the rollback is in progress; an id that
\* is not registered is refused and nothing is written
RemoveServer ==
    /\ rbPc \notin {"off", "idle", "done", "notfound"}
    /\ \E id \in {1, 2} :
        LET kept == SelectSeqBy(registry, {e \in Range(registry) : e.id # id})
        IN /\ Len(kept) # Len(registry)
           /\ registry' = kept
    /\ UNCHANGED <<rbVars, localVars>>
    /\ OutsideRollback

\* rollback_server up to its first await: load_servers and find
RollbackStart ==
    /\ rbPc = "idle"
    /\ IF FindFirst(registry, rbId) = 0
       THEN /\ rbPc' = "notfound"
            /\ UNCHANGED <<rbServer, rbCompleted, rbLastError>>
       ELSE /\ rbServer' = <<registry[FindFirst(registry, rbId)]>>
            /\ rbCompleted' = <<>>
            /\ rbLastError' = None
            /\ rbPc' = "stop_daemon"
    /\ rbFirst' = <<registry>>
    /\ UNCHANGED <<registry, rbId, rbAttempts, rbAll, rbPrior, rbResult, localVars>>
    /\ OutsideRollback

\* RollbackStage that records a stage only when its command exited with 0
RollbackStageOnZeroExit(s) ==
    /\ rbPc = s
    /\ \E r \in ExecOutcomes(rbServer[1].host = "valid") :
        /\ rbAttempts' = Append(rbAttempts, [stage |-> s, result |-> r])
        /\ rbCompleted' = IF r = "ok" THEN Append(rbCompleted, s) ELSE rbCompleted
        /\ rbLastError' = IF r = "err" THEN s ELSE rbLastError
        /\ rbPc' = RollbackNextPc(s, r)
    /\ UNCHANGED <<registry, rbId, rbFirst, rbServer, rbAll, rbPrior, rbResult, localVars>>
    /\ OutsideRollback

\* one stage: exec_remote returns and the match records it
RollbackStage(s) ==
    /\ rbPc = s
    /\ \E r \in ExecOutcomes(rbServer[1].host = "valid") :
        /\ rbAttempts' = Append(rbAttempts, [stage |-> s, result |-> r])
        /\ rbCompleted' = IF r = "err" THEN rbCompleted ELSE Append(rbCompleted, s)
        /\ rbLastError' = IF r = "err" THEN s ELSE rbLastError
        /\ rbPc' = RollbackNextPc(s, r)
    /\ UNCHANGED <<registry, rbId, rbFirst, rbServer, rbAll, rbPrior, rbResult, localVars>>
    /\ OutsideRollback

\* let mut all_servers = Self::load_servers()?
RollbackReload ==
    /\ rbPc = "reload"
    /\ rbAll' = registry
    /\ rbPc' = "save"
    /\ UNCHANGED <<registry, rbId, rbFirst, rbServer, rbCompleted, rbLastError, rbAttempts, rbPrior,
                   rbResult, localVars>>
    /\ OutsideRollback

\* the status of the first entry with the id is set in all_servers, the
\* list is saved and the result returned
RollbackSave ==
    /\ rbPc = "save"
    /\ rbAll' = SetStatus(rbAll, rbId, "pending")
    /\ registry' = rbAll'
    /\ rbPrior' = <<[file |-> registry, loaded |-> rbAll]>>
    /\ rbResult' = <<[server_id |-> rbId,
                      success |-> (rbLastError = None),
                      error |-> rbLastError,
                      completed_stages |-> rbCompleted]>>
    /\ rbPc' = "done"
    /\ UNCHANGED <<rbId, rbFirst, rbServer, rbCompleted, rbLastError, rbAttempts, localVars>>
    /\ OutsideRollback

(***************************************************************************)
(* rollback_local. The machine is what its three stages look at and        *)
(* change: whether HOME is set, whether the gateway daemon runs, whether   *)
(* another node process has "openclaw" or "gateway" in its command line    *)
(* (lookalike), whether openclaw.json and .env exist, whether the openclaw *)
(* command can be started (installed) and whether npm can. A stop that     *)
(* exits 0 leaves no daemon running, an uninstall that exits 0 removes the *)
(* openclaw command. The messages of the stages are left out.              *)
(***************************************************************************)
\* the machines rollback_local is run on
Machines ==
    [home : BOOLEAN, running : BOOLEAN, lookalike : BOOLEAN, config : BOOLEAN,
     env : BOOLEAN, installed : BOOLEAN, npm : BOOLEAN]

\* DaemonService::status().running: some process whose name contains "node"
\* has "openclaw" or "gateway" in its arguments
StatusRunning(m) == m.running \/ m.lookalike

\* SafeCommand::run returns Err only if the process fails to start
RunOutcomes(startable) == IF startable THEN {"ok", "nonzero"} ELSE {"err"}

\* the stages vector rollback_local starts from
PendingStages == [i \in 1..3 |-> [name |-> RollbackStages[i], status |-> "pending"]]

\* DaemonService::stop, when status() reports a daemon: SafeCommand::run
\* returned exit code 0, another exit code, or Err
StopStatus(r) == IF r = "ok" THEN "success" ELSE "failed"

\* stage 2 with HOME known: rc and re are what remove_file returned for
\* openclaw.json and .env, "absent" when the file does not exist
RemoveConfigStatus(rc, re) ==
    LET afterConfig == IF rc = "err" THEN "failed" ELSE "pending"
        afterEnv == IF re = "err" /\ afterConfig # "failed" THEN "failed" ELSE afterConfig
        removed_any == rc = "ok" \/ re = "ok"
    IN IF afterEnv = "pending"
       THEN (IF removed_any THEN "success" ELSE "skipped")
       ELSE afterEnv

\* stage 3: npm uninstall returned exit code 0, another exit code, or Err
UninstallStatus(r) ==
    IF r = "ok" THEN "success" ELSE IF r = "nonzero" THEN "skipped" ELSE "failed"

\* HasFailures that asks for every stage to have failed
HasFailuresAll(sts) == \A i \in 1..Len(sts) : sts[i].status = "failed"

\* stages.iter().any(|s| s.status == "failed")
HasFailures(sts) == \E i \in 1..Len(sts) : sts[i].status = "failed"

RECURSIVE FailedNames(_)
\* stages.iter().filter(|s| s.status == "failed").map(|s| s.name)
FailedNames(sts) ==
    IF sts = <<>> THEN <<>>
    ELSE (IF Head(sts).status = "failed" THEN <<Head(sts).name>> ELSE <<>>)
         \o FailedNames(Tail(sts))

LocalFrame == UNCHANGED <<registry, rbVars>> /\ OutsideRollback

\* rollback_local is called: the stages vector is built
LocalStart ==
    /\ localPc \in {"idle", "done"}
    /\ localRuns < MaxRuns
    /\ localRuns' = localRuns + 1
    /\ stages' = PendingStages
    /\ localAttempts' = <<>>
    /\ localPrev' = localResult
    /\ localResult' = <<>>
    /\ localPc' = "stop_daemon"
    /\ UNCHANGED machine
    /\ LocalFrame

\* stage 1
LocalStopDaemon ==
    /\ localPc = "stop_daemon"
    /\ IF StatusRunning(machine)
       THEN \E r \in RunOutcomes(machine.installed) :
               /\ stages' = [stages EXCEPT ![1].status = StopStatus(r)]
               /\ machine' = [machine EXCEPT !.running = (machine.running /\ r # "ok")]
       ELSE /\ stages' = [stages EXCEPT ![1].status = "skipped"]
            /\ UNCHANGED machine
    /\ localAttempts' = Append(localAttempts, "stop_daemon")
    /\ localPc' = "remove_config"
    /\ UNCHANGED <<localPrev, localRuns, localResult>>
    /\ LocalFrame

\* stage 2
LocalRemoveConfig ==
    /\ localPc = "remove_config"
    /\ IF machine.home
       THEN \E rc \in (IF machine.config THEN {"ok", "err"} ELSE {"absent"}),
               re \in (IF machine.env THEN {"ok", "err"} ELSE {"absent"}) :
               /\ stages' = [stages EXCEPT ![2].status = RemoveConfigStatus(rc, re)]
               /\ machine' = [machine EXCEPT !.config = (rc = "err"),
                                             !.env = (re = "err")]
       ELSE /\ stages' = [stages EXCEPT ![2].status = "skipped"]
            /\ UNCHANGED machine
    /\ localAttempts' = Append(localAttempts, "remove_config")
    /\ localPc' = "uninstall_openclaw"
    /\ UNCHANGED <<localPrev, localRuns, localResult>>
    /\ LocalFrame

\* stage 3
LocalUninstall ==
    /\ localPc = "uninstall_openclaw"
    /\ \E r \in RunOutcomes(machine.npm) :
        /\ stages' = [stages EXCEPT ![3].status = UninstallStatus(r)]
        /\ machine' = [machine EXCEPT !.installed = (machine.installed /\ r # "ok")]
    /\ localAttempts' = Append(localAttempts, "uninstall_openclaw")
    /\ localPc' = "finish"
    /\ UNCHANGED <<localPrev, localRuns, localResult>>
    /\ LocalFrame

\* has_failures, error and the RollbackResult
LocalFinish ==
    /\ localPc = "finish"
    /\ localResult' = <<[success |-> ~HasFailures(stages),
                         stages |-> stages,
                         error |-> IF HasFailures(stages)
                                   THEN <<FailedNames(stages)>> ELSE <<>>]>>
    /\ localPc' = "done"
    /\ UNCHANGED <<machine, localPrev, stages, localAttempts, localRuns>>
    /\ LocalFrame

(***************************************************************************)
(* SpecRollback: one rollback_server call against a registry other         *)
(* requests add to and remove from, or rollback_local called MaxRuns times *)
(* on one machine                                                          *)
(***************************************************************************)
RollbackInit ==
    /\ \/ /\ rbPc = "idle"
          /\ rbId \in {1, 2}
          /\ rbFirst = <<>>
          /\ registry \in SeqsUpTo(RegEntries, MaxReg)
          /\ rbServer = <<>>
          /\ rbCompleted = <<>>
          /\ rbLastError = None
          /\ rbAttempts = <<>>
          /\ rbAll = <<>>
          /\ rbPrior = <<>>
          /\ rbResult = <<>>
          /\ LocalIdle
       \/ /\ RollbackIdle
          /\ registry = <<>>
          /\ localPc = "idle"
          /\ machine \in Machines
          /\ localPrev = <<>>
          /\ stages = <<>>
          /\ localAttempts = <<>>
          /\ localRuns = 0
          /\ localResult = <<>>
    /\ hostOk = TRUE
    /\ PipelineInit
    /\ FwdInit
    /\ AggInit
    /\ DeployIdle
    /\ StreamIdle
    /\ GatewayIdle
    /\ SocketIdle
    /\ SaveIdle
    /\ ApiIdle
    /\ CodecIdle
    /\ CommandIdle
    /\ LimiterIdle
    /\ AnalysisIdle
    /\ PressureIdle

RollbackNext ==
    \/ AddServer
    \/ RemoveServer
    \/ RollbackStart
    \/ \E s \in Range(RollbackStages) : RollbackStage(s)
    \/ RollbackReload
    \/ RollbackSave
    \/ LocalStart
    \/ LocalStopDaemon
    \/ LocalRemoveConfig
    \/ LocalUninstall
    \/ LocalFinish

SpecRollback == RollbackInit /\ [][RollbackNext]_vars

(***************************************************************************)
(* SpecRegistry: deploy_to_servers against the registries add_server can   *)
(* leave, an id twice among them, for requests over ids 1 to 3             *)
(***************************************************************************)
RegistryInit ==
    /\ registry \in SeqsUpTo(RegEntries, MaxReg)
    /\ requested \in SUBSET {1, 2, 3}
    /\ dpPc = "idle"
    /\ targets = <<>>
    /\ task = <<>>
    /\ outcome = <<>>
    /\ relayed = <<>>
    /\ backlog = 0
    /\ results = <<>>
    /\ saves = 0
    /\ fileLog = <<>>
    /\ sinkOpen = TRUE
    /\ aggChan = <<>>
    /\ hostOk = TRUE
    /\ PipelineInit
    /\ FwdInit
    /\ RollbackIdle
    /\ LocalIdle
    /\ StreamIdle
    /\ GatewayIdle
    /\ SocketIdle
    /\ SaveIdle
    /\ ApiIdle
    /\ CodecIdle
    /\ CommandIdle
    /\ LimiterIdle
    /\ AnalysisIdle
    /\ PressureIdle

SpecRegistry == RegistryInit /\ [][DeployNext]_vars

(***************************************************************************)
(* SpecStream: the workers of one deploy and the aggregate channel         *)
(* (deploy_single_server, multi_server.rs)                                 *)
(*                                                                         *)
(* Every worker has its own private channel and forwarding task; all       *)
(* forwarding tasks send on clones of the one aggregate sender. A pipeline *)
(* is taken here as what it does to its channel: it sends up to MaxEvents  *)
(* events and returns, which drops the sender. Both channels hold 100      *)
(* events, more than a run of the model sends, so no send waits.           *)
(***************************************************************************)
\* the targets of the deploy
StreamTargets == <<[id |-> 1, name |-> "alpha"], [id |-> 2, name |-> "beta"]>>

StreamWorkers == 1..Len(StreamTargets)

\* RemoteSetupProgress values a pipeline sends; error is an Option
StreamEvents ==
    {[stage |-> "connection", status |-> "completed", message |-> "connected",
      error |-> <<>>, timestamp |-> 7],
     [stage |-> "node", status |-> "failed", message |-> "node failed",
      error |-> <<"exit 1">>, timestamp |-> 8]}

\* Republish that stamps the event anew
RepublishRestamped(target, progress) ==
    [server_id |-> target.id,
     server_name |-> target.name,
     stage |-> progress.stage,
     status |-> progress.status,
     message |-> progress.message,
     error |-> progress.error,
     timestamp |-> 0]

\* the MultiServerProgress the forwarding task builds from a progress
Republish(target, progress) ==
    [server_id |-> target.id,
     server_name |-> target.name,
     stage |-> progress.stage,
     status |-> progress.status,
     message |-> progress.message,
     error |-> progress.error,
     timestamp |-> progress.timestamp]

OutsideStream ==
    UNCHANGED <<pipeVars, fwdVars, aggVars, registry, deployVars, rbVars, localVars, gwVars, wsVars, fsVars, apiVars, cdVars,
                scVars, vtVars, anVars, bpVars>>

\* send_progress of worker w's pipeline: the send fails, and is only
\* logged, once the forwarding task has dropped the receiver
StreamEmit(w) ==
    /\ stTx[w]
    /\ Len(stSent[w]) < MaxEvents
    /\ \E progress \in StreamEvents :
        /\ stSent' = [stSent EXCEPT ![w] = Append(@, progress)]
        /\ stChan' = IF stFwd[w] = "done" THEN stChan
                     ELSE [stChan EXCEPT ![w] = Append(@, progress)]
    /\ UNCHANGED <<stTx, stFwd, stHold, stAgg, stSink>>
    /\ OutsideStream

\* worker w's pipeline returns: per_server_tx is dropped
StreamReturn(w) ==
    /\ stTx[w]
    /\ stTx' = [stTx EXCEPT ![w] = FALSE]
    /\ UNCHANGED <<stSent, stChan, stFwd, stHold, stAgg, stSink>>
    /\ OutsideStream

\* per_server_rx.recv() of worker w's forwarding task yields Some(progress)
StreamRecv(w) ==
    /\ stFwd[w] = "recv"
    /\ stChan[w] # <<>>
    /\ stHold' = [stHold EXCEPT ![w] = <<Head(stChan[w])>>]
    /\ stChan' = [stChan EXCEPT ![w] = Tail(@)]
    /\ stFwd' = [stFwd EXCEPT ![w] = "send"]
    /\ UNCHANGED <<stTx, stSent, stAgg, stSink>>
    /\ OutsideStream

\* recv() yields None: the channel is empty and its sender dropped
StreamRecvNone(w) ==
    /\ stFwd[w] = "recv"
    /\ stChan[w] = <<>>
    /\ ~stTx[w]
    /\ stFwd' = [stFwd EXCEPT ![w] = "done"]
    /\ UNCHANGED <<stTx, stSent, stChan, stHold, stAgg, stSink>>
    /\ OutsideStream

\* fwd_tx.send(multi_progress): Ok, or Err and break when the consumer has
\* dropped the receiver, which drops per_server_rx and what it holds
StreamSend(w) ==
    /\ stFwd[w] = "send"
    /\ IF stSink
       THEN /\ stAgg' = Append(stAgg, Republish(StreamTargets[w], stHold[w][1]))
            /\ stFwd' = [stFwd EXCEPT ![w] = "recv"]
            /\ UNCHANGED stChan
       ELSE /\ stFwd' = [stFwd EXCEPT ![w] = "done"]
            /\ stChan' = [stChan EXCEPT ![w] = <<>>]
            /\ UNCHANGED stAgg
    /\ stHold' = [stHold EXCEPT ![w] = <<>>]
    /\ UNCHANGED <<stTx, stSent, stSink>>
    /\ OutsideStream

\* the websocket handler leaves its loop on a failed write and drops the
\* aggregate receiver
StreamDisconnect ==
    /\ stSink
    /\ stSink' = FALSE
    /\ UNCHANGED <<stTx, stSent, stChan, stFwd, stHold, stAgg>>
    /\ OutsideStream

StreamInit ==
    /\ stTx = [w \in StreamWorkers |-> TRUE]
    /\ stSent = [w \in StreamWorkers |-> <<>>]
    /\ stChan = [w \in StreamWorkers |-> <<>>]
    /\ stFwd = [w \in StreamWorkers |-> "recv"]
    /\ stHold = [w \in StreamWorkers |-> <<>>]
    /\ stAgg = <<>>
    /\ stSink = TRUE
    /\ hostOk = TRUE
    /\ PipelineInit
    /\ FwdInit
    /\ AggInit
    /\ registry = <<>>
    /\ DeployIdle
    /\ RollbackIdle
    /\ LocalIdle
    /\ GatewayIdle
    /\ SocketIdle
    /\ SaveIdle
    /\ ApiIdle
    /\ CodecIdle
    /\ CommandIdle
    /\ LimiterIdle
    /\ AnalysisIdle
    /\ PressureIdle

StreamNext ==
    \/ \E w \in StreamWorkers : StreamEmit(w)
    \/ \E w \in StreamWorkers : StreamReturn(w)
    \/ \E w \in StreamWorkers : StreamRecv(w)
    \/ \E w \in StreamWorkers : StreamRecvNone(w)
    \/ \E w \in StreamWorkers : StreamSend(w)
    \/ StreamDisconnect

SpecStream == StreamInit /\ [][StreamNext]_vars

(***************************************************************************)
(* SpecGateway: one call of check_connection, exec_remote,                 *)
(* stream_remote_command (ssh.rs) or test_server (multi_server.rs)         *)
(*                                                                         *)
(* Hosts, users and error texts are sequences of characters, so that the   *)
(* regular expressions and the substring tests are computed as the code    *)
(* computes them. The regex crate's ^ and $ match at the two ends of the   *)
(* text only. The text of a failed Session::connect comes from the openssh *)
(* library, which is not part of the source: it is drawn from texts of the *)
(* kind the library and the ssh client it runs print for each failure.     *)
(***************************************************************************)
LowerChars ==
    {"a", "b", "c", "d", "e", "f", "g", "h", "i", "j", "k", "l", "m",
     "n", "o", "p", "q", "r", "s", "t", "u", "v", "w", "x", "y", "z"}

UpperChars ==
    {"A", "B", "C", "D", "E", "F", "G", "H", "I", "J", "K", "L", "M",
     "N", "O", "P", "Q", "R", "S", "T", "U", "V", "W", "X", "Y", "Z"}

DigitChars == Range(Digits)

\* the characters the hosts and users of the model are made of
NameChars == {"a", "Z", "9", "-", "_", " ", "@"}

Names == SeqsUpTo(NameChars, MaxName)

\* HOST_REGEX ^[a-zA-Z0-9.-]+$
HostRegexMatches(host) ==
    /\ Len(host) >= 1
    /\ \A i \in 1..Len(host) :
          host[i] \in LowerChars \cup UpperChars \cup DigitChars \cup {".", "-"}

\* UserRegexMatches with the letters of either case
UserRegexMatchesAnyCase(user) ==
    /\ Len(user) >= 1
    /\ user[1] \in LowerChars \cup UpperChars \cup {"_"}
    /\ \A i \in 2..Len(user) :
          user[i] \in LowerChars \cup UpperChars \cup DigitChars \cup {"_", "-"}

\* USER_REGEX ^[a-z_][a-z0-9_-]*$
UserRegexMatches(user) ==
    /\ Len(user) >= 1
    /\ user[1] \in LowerChars \cup {"_"}
    /\ \A i \in 2..Len(user) : user[i] \in LowerChars \cup DigitChars \cup {"_", "-"}

\* validate_host: Ok(()) or the bail! of the empty or ill-formed host
ValidateHost(host) == host # <<>> /\ HostRegexMatches(host)

\* validate_username
ValidateUsername(user) == user # <<>> /\ UserRegexMatches(user)

\* str::contains
Contains(text, pattern) ==
    \E i \in 0..(Len(text) - Len(pattern)) :
        SubSeq(text, i + 1, i + Len(pattern)) = pattern

PermissionDeniedPattern ==
    <<"p", "e", "r", "m", "i", "s", "s", "i", "o", "n", " ", "d", "e", "n",
      "i", "e", "d">>

AuthenticationPattern ==
    <<"a", "u", "t", "h", "e", "n", "t", "i", "c", "a", "t", "i", "o", "n">>

\* openssh's Error::Connect, whatever made the connection fail
TextConnect ==
    <<"f", "a", "i", "l", "e", "d", " ", "t", "o", " ", "c", "o", "n", "n",
      "e", "c", "t", " ", "t", "o", " ", "t", "h", "e", " ", "r", "e", "m",
      "o", "t", "e", " ", "h", "o", "s", "t">>

\* the ssh client on a rejected key or password
TextPermissionDenied ==
    <<"P", "e", "r", "m", "i", "s", "s", "i", "o", "n", " ", "d", "e", "n",
      "i", "e", "d", " ", "(", "p", "u", "b", "l", "i", "c", "k", "e", "y",
      ")", ".">>

\* the ssh client when the server closes after too many offered keys
TextTooManyFailures ==
    <<"T", "o", "o", " ", "m", "a", "n", "y", " ", "a", "u", "t", "h", "e",
      "n", "t", "i", "c", "a", "t", "i", "o", "n", " ", "f", "a", "i", "l",
      "u", "r", "e", "s">>

\* the ssh client on an unknown or changed host key
TextHostKey ==
    <<"H", "o", "s", "t", " ", "k", "e", "y", " ", "v", "e", "r", "i", "f",
      "i", "c", "a", "t", "i", "o", "n", " ", "f", "a", "i", "l", "e", "d",
      ".">>

\* the ssh client on a port nobody listens on
TextRefused ==
    <<"C", "o", "n", "n", "e", "c", "t", "i", "o", "n", " ", "r", "e", "f",
      "u", "s", "e", "d">>

\* why a connection attempt fails
FailureKinds == {"authentication", "host_key", "network"}

\* the texts e.to_string() can have for a failure of kind k
FailureTexts(k) ==
    CASE k = "authentication" -> {TextConnect, TextPermissionDenied, TextTooManyFailures}
      [] k = "host_key" -> {TextConnect, TextHostKey}
      [] k = "network" -> {TextConnect, TextRefused}

\* the Err arm of check_connection: Ok(false) or Err
ClassifyConnectError(error_msg) ==
    IF Contains(error_msg, PermissionDeniedPattern)
          \/ Contains(error_msg, AuthenticationPattern)
    THEN "false" ELSE "err"

\* the operations of the gateway, and test_server on top of
\* check_connection
GatewayOps == {"check_connection", "exec_remote", "stream_remote_command", "test_server"}

ChecksConnection(op) == op \in {"check_connection", "test_server"}

\* the status test_server sets for what check_connection returned
TestStatus(r) == IF r = "true" THEN "connected" ELSE "failed"

OutsideGateway ==
    UNCHANGED <<pipeVars, fwdVars, aggVars, registry, deployVars, rbVars, localVars,
                streamVars, wsVars, fsVars, apiVars, cdVars,
                scVars, vtVars, anVars, bpVars>>

\* the call up to its first await: validate_host, validate_username, the
\* empty-command check of exec_remote and stream_remote_command, and
\* Session::connect
GatewayCall ==
    /\ gwPc = "idle"
    /\ \E op \in GatewayOps, command \in BOOLEAN :
        /\ gwOp' = op
        /\ gwCommand' = command
        /\ IF ~ValidateHost(gwHost) \/ ~ValidateUsername(gwUser)
           THEN /\ gwResult' = <<"validation_error">>
                /\ gwPc' = "done"
                /\ UNCHANGED gwSessions
           ELSE IF ~ChecksConnection(op) /\ ~command
           THEN /\ gwResult' = <<"empty_command">>
                /\ gwPc' = "done"
                /\ UNCHANGED gwSessions
           ELSE /\ gwSessions' = Append(gwSessions, [user |-> gwUser, host |-> gwHost])
                /\ gwPc' = "connecting"
                /\ UNCHANGED gwResult
    /\ UNCHANGED <<gwHost, gwUser, gwFailure>>
    /\ OutsideGateway

\* Session::connect returns Ok: check_connection returns Ok(true), the
\* other two run the command
GatewayConnected ==
    /\ gwPc = "connecting"
    /\ IF ChecksConnection(gwOp)
       THEN gwResult' = <<"true">>
       ELSE \E r \in {"ok", "nonzero", "err"} : gwResult' = <<r>>
    /\ gwPc' = "done"
    /\ UNCHANGED <<gwOp, gwHost, gwUser, gwCommand, gwSessions, gwFailure>>
    /\ OutsideGateway

\* Session::connect returns Err
GatewayConnectFailed ==
    /\ gwPc = "connecting"
    /\ \E k \in FailureKinds :
        \E error_msg \in FailureTexts(k) :
            /\ gwFailure' = <<k>>
            /\ gwResult' = IF ChecksConnection(gwOp)
                           THEN <<ClassifyConnectError(error_msg)>>
                           ELSE <<"err">>
    /\ gwPc' = "done"
    /\ UNCHANGED <<gwOp, gwHost, gwUser, gwCommand, gwSessions>>
    /\ OutsideGateway

GatewayInit ==
    /\ gwPc = "idle"
    /\ gwOp = ""
    /\ gwHost \in Names
    /\ gwUser \in Names
    /\ gwCommand = FALSE
    /\ gwSessions = <<>>
    /\ gwFailure = <<>>
    /\ gwResult = <<>>
    /\ hostOk = TRUE
    /\ PipelineInit
    /\ FwdInit
    /\ AggInit
    /\ registry = <<>>
    /\ DeployIdle
    /\ RollbackIdle
    /\ LocalIdle
    /\ StreamIdle
    /\ SocketIdle
    /\ SaveIdle
    /\ ApiIdle
    /\ CodecIdle
    /\ CommandIdle
    /\ LimiterIdle
    /\ AnalysisIdle
    /\ PressureIdle

GatewayNext ==
    \/ GatewayCall
    \/ GatewayConnected
    \/ GatewayConnectFailed

SpecGateway == GatewayInit /\ [][GatewayNext]_vars

(***************************************************************************)
(* SpecSocket: handle_remote_install_socket (routes/remote.rs) and         *)
(* handle_multi_server_deploy_socket (routes/multi_server.rs)              *)
(*                                                                         *)
(* The first message is a text frame, a frame of another kind (binary,     *)
(* ping), a close frame, or none (the client is gone). A text is JSON of a *)
(* WsMessage (msg_type and payload), JSON of a bare request of one of the  *)
(* two streams, or anything else; serde_json decides which. A payload and  *)
(* a bare request are named after the request type they deserialize to.   *)
(***************************************************************************)
MsgTypes == {"start-remote-install", "start-multi-server-deploy", "ping"}

Payloads == {"RemoteInstallRequest", "MultiServerDeployRequest", "other"}

FirstMessages ==
    [kind : {"text"}, json : {"envelope"}, msg_type : MsgTypes, payload : Payloads]
    \cup [kind : {"text"}, json : {"bare"}, payload : Payloads]
    \cup {[kind |-> "binary"], [kind |-> "close"], [kind |-> "none"]}

\* the request type the handler of a stream deserializes
RequestOf(stream) ==
    IF stream = "remote" THEN "RemoteInstallRequest" ELSE "MultiServerDeployRequest"

\* serde_json::from_str::<WsMessage>(&text) is Ok
IsEnvelope(msg) == msg.kind = "text" /\ msg.json = "envelope"

\* the match on the first text of the remote install stream: the request,
\* or the error to send
ParseInstall(msg) ==
    IF IsEnvelope(msg)
    THEN IF msg.msg_type = "start-remote-install"
         THEN (IF msg.payload = RequestOf("remote") THEN "request" ELSE "error")
         ELSE "error"
    ELSE "error"

\* the match on the first text of the multi-server deploy stream: an
\* envelope is taken for its payload alone; a text that is no envelope is
\* tried as a bare MultiServerDeployRequest
ParseDeploy(msg) ==
    IF IsEnvelope(msg)
    THEN (IF msg.payload = RequestOf("multi") THEN "request" ELSE "error")
    ELSE IF msg.payload = RequestOf("multi") THEN "request" ELSE "error"

OutsideSocket ==
    UNCHANGED <<pipeVars, fwdVars, aggVars, registry, deployVars, rbVars, localVars,
                streamVars, gwVars, fsVars, apiVars, cdVars,
                scVars, vtVars, anVars, bpVars>>

\* socket.recv() returns the first message
SocketFirst ==
    /\ wsPc = "wait"
    /\ IF wsFirst.kind = "text"
       THEN LET parsed == IF wsStream = "remote" THEN ParseInstall(wsFirst)
                          ELSE ParseDeploy(wsFirst)
            IN IF parsed = "request"
               THEN wsPc' = "config" /\ UNCHANGED wsOut
               ELSE wsPc' = "closed" /\ wsOut' = Append(wsOut, "error")
       ELSE wsPc' = "closed" /\ UNCHANGED wsOut
    /\ UNCHANGED <<wsStream, wsFirst, wsStarted>>
    /\ OutsideSocket

\* load_wizard_config: on Ok the channel is made and the pipeline (or the
\* deploy) spawned; on Err one error event is sent and the handler returns
SocketSpawn ==
    /\ wsPc = "config"
    /\ \E r \in FileOutcomes :
        IF r = "ok"
        THEN wsStarted' = TRUE /\ wsPc' = "streaming" /\ UNCHANGED wsOut
        ELSE wsOut' = Append(wsOut, "error") /\ wsPc' = "closed" /\ UNCHANGED wsStarted
    /\ UNCHANGED <<wsStream, wsFirst>>
    /\ OutsideSocket

\* rx.recv() yields an event of the pipeline and it is written to the socket
SocketProgress ==
    /\ wsPc = "streaming"
    /\ Len(wsOut) < MaxEvents
    /\ \E progress \in StreamEvents : wsOut' = Append(wsOut, progress.stage)
    /\ UNCHANGED <<wsPc, wsStream, wsFirst, wsStarted>>
    /\ OutsideSocket

\* rx.recv() yields None, or a write failed: the handler returns
SocketDone ==
    /\ wsPc = "streaming"
    /\ wsPc' = "closed"
    /\ UNCHANGED <<wsStream, wsFirst, wsOut, wsStarted>>
    /\ OutsideSocket

SocketInit ==
    /\ wsPc = "wait"
    /\ wsStream \in {"remote", "multi"}
    /\ wsFirst \in FirstMessages
    /\ wsOut = <<>>
    /\ wsStarted = FALSE
    /\ hostOk = TRUE
    /\ PipelineInit
    /\ FwdInit
    /\ AggInit
    /\ registry = <<>>
    /\ DeployIdle
    /\ RollbackIdle
    /\ LocalIdle
    /\ StreamIdle
    /\ GatewayIdle
    /\ SaveIdle
    /\ ApiIdle
    /\ CodecIdle
    /\ CommandIdle
    /\ LimiterIdle
    /\ AnalysisIdle
    /\ PressureIdle

SocketNext ==
    \/ SocketFirst
    \/ SocketSpawn
    \/ SocketProgress
    \/ SocketDone

SpecSocket == SocketInit /\ [][SocketNext]_vars

(***************************************************************************)
(* SpecSave: ConfigWriter::write_text (config.rs), as save_servers calls   *)
(* it on servers.json                                                      *)
(*                                                                         *)
(* A directory maps the names servers.json and servers.tmp to files; a     *)
(* file handle stays on its file whatever the names do. The callers of     *)
(* save_servers (the handlers of add, remove, test and rollback requests   *)
(* and the deploy task) run on the threads of the runtime with no lock     *)
(* between them; two calls are followed. A content is MaxChunks chunks;    *)
(* write_all writes them one write call at a time.                         *)
(***************************************************************************)
Savers == {1, 2}

\* the content of servers.json before the calls
OldContent == [k \in 1..MaxChunks |-> <<0, k>>]

\* serde_json::to_string_pretty(servers) of call s
NewContent(s) == [k \in 1..MaxChunks |-> <<s, k>>]

\* what an earlier call that did not get to its rename left in servers.tmp
StaleContent == <<<<0, 1>>>>

\* write(2) of one chunk at an offset: the chunk replaces what was there,
\* a gap before it reads as zeros
WriteAt(content, off, chunk) ==
    LET padded == IF Len(content) < off
                  THEN content \o Repeat(<<0, 0>>, off - Len(content))
                  ELSE content
        len == IF Len(padded) > off THEN Len(padded) ELSE off + 1
    IN [i \in 1..len |-> IF i = off + 1 THEN chunk ELSE padded[i]]

OutsideSave ==
    UNCHANGED <<pipeVars, fwdVars, aggVars, registry, deployVars, rbVars, localVars,
                streamVars, gwVars, wsVars, apiVars, cdVars,
                scVars, vtVars, anVars, bpVars>>

\* the call returns Err through `?`
SaveFailed(s) == svPc' = [svPc EXCEPT ![s] = "failed"]

\* fs::create_dir_all(parent)?
SaveMkdir(s) ==
    /\ svPc[s] = "mkdir"
    /\ \E r \in FileOutcomes :
        IF r = "ok" THEN svPc' = [svPc EXCEPT ![s] = "create"] ELSE SaveFailed(s)
    /\ UNCHANGED <<inodes, dirJson, dirTmp, svFd, svOff>>
    /\ OutsideSave

\* fs::File::create(&temp_path)?: the file of that name is truncated, or a
\* new empty file gets the name
SaveCreate(s) ==
    /\ svPc[s] = "create"
    /\ \E r \in FileOutcomes :
        IF r = "ok"
        THEN /\ IF dirTmp # 0
                THEN /\ inodes' = [inodes EXCEPT ![dirTmp] = <<>>]
                     /\ svFd' = [svFd EXCEPT ![s] = dirTmp]
                     /\ UNCHANGED dirTmp
                ELSE /\ inodes' = Append(inodes, <<>>)
                     /\ dirTmp' = Len(inodes) + 1
                     /\ svFd' = [svFd EXCEPT ![s] = Len(inodes) + 1]
             /\ svPc' = [svPc EXCEPT ![s] = "write"]
        ELSE SaveFailed(s) /\ UNCHANGED <<inodes, dirTmp, svFd>>
    /\ UNCHANGED <<dirJson, svOff>>
    /\ OutsideSave

\* file.write_all(content.as_bytes())?: one write call of its loop
SaveWrite(s) ==
    /\ svPc[s] = "write"
    /\ \E r \in FileOutcomes :
        IF r = "ok"
        THEN /\ inodes' = [inodes EXCEPT ![svFd[s]] =
                              WriteAt(@, svOff[s], NewContent(s)[svOff[s] + 1])]
             /\ svOff' = [svOff EXCEPT ![s] = @ + 1]
             /\ svPc' = [svPc EXCEPT ![s] =
                            IF svOff[s] + 1 = Len(NewContent(s)) THEN "sync" ELSE "write"]
        ELSE SaveFailed(s) /\ UNCHANGED <<inodes, svOff>>
    /\ UNCHANGED <<dirJson, dirTmp, svFd>>
    /\ OutsideSave

\* file.sync_all()?; drop(file)
SaveSync(s) ==
    /\ svPc[s] = "sync"
    /\ \E r \in FileOutcomes :
        IF r = "ok" THEN svPc' = [svPc EXCEPT ![s] = "rename"] ELSE SaveFailed(s)
    /\ UNCHANGED <<inodes, dirJson, dirTmp, svFd, svOff>>
    /\ OutsideSave

\* fs::rename(&temp_path, path)?: servers.json names the file servers.tmp
\* named, in one step; an error when no file has the name servers.tmp
SaveRename(s) ==
    /\ svPc[s] = "rename"
    /\ \E r \in FileOutcomes :
        IF r = "ok" /\ dirTmp # 0
        THEN /\ dirJson' = dirTmp
             /\ dirTmp' = 0
             /\ svPc' = [svPc EXCEPT ![s] = "done"]
        ELSE SaveFailed(s) /\ UNCHANGED <<dirJson, dirTmp>>
    /\ UNCHANGED <<inodes, svFd, svOff>>
    /\ OutsideSave

\* the process dies: no call takes another step
SaveCrash ==
    /\ \E s \in Savers : svPc[s] \in {"mkdir", "create", "write", "sync", "rename"}
    /\ svPc' = [s \in Savers |-> "crashed"]
    /\ UNCHANGED <<inodes, dirJson, dirTmp, svFd, svOff>>
    /\ OutsideSave

SaveInit ==
    /\ \E json \in BOOLEAN, tmp \in BOOLEAN :
        /\ inodes = (IF json THEN <<OldContent>> ELSE <<>>)
                       \o (IF tmp THEN <<StaleContent>> ELSE <<>>)
        /\ dirJson = IF json THEN 1 ELSE 0
        /\ dirTmp = IF tmp THEN Len(inodes) ELSE 0
    /\ svPc \in [Savers -> {"mkdir", "off"}]
    /\ svFd = [s \in Savers |-> 0]
    /\ svOff = [s \in Savers |-> 0]
    /\ hostOk = TRUE
    /\ PipelineInit
    /\ FwdInit
    /\ AggInit
    /\ registry = <<>>
    /\ DeployIdle
    /\ RollbackIdle
    /\ LocalIdle
    /\ StreamIdle
    /\ GatewayIdle
    /\ SocketIdle
    /\ ApiIdle
    /\ CodecIdle
    /\ CommandIdle
    /\ LimiterIdle
    /\ AnalysisIdle
    /\ PressureIdle

SaveNext ==
    \/ \E s \in Savers : SaveMkdir(s)
    \/ \E s \in Savers : SaveCreate(s)
    \/ \E s \in Savers : SaveWrite(s)
    \/ \E s \in Savers : SaveSync(s)
    \/ \E s \in Savers : SaveRename(s)
    \/ SaveCrash

SpecSave == SaveInit /\ [][SaveNext]_vars

(***************************************************************************)
(* SpecApi: the operations on the registry (multi_server.rs), called side  *)
(* by side                                                                 *)
(*                                                                         *)
(* Every operation loads servers.json, works on its own copy and saves the *)
(* copy; nothing holds a lock from the load to the save, and the handlers  *)
(* and the deploy task run on the threads of the runtime. An operation is  *)
(* followed through its load, through what it awaits (test_server: the     *)
(* connection check; deploy_to_servers: its workers, then the reload;      *)
(* rollback_server: its stages, then the reload) and through its save.     *)
(***************************************************************************)
Callers == {1, 2}

\* the values of the clock: two consecutive milliseconds
Millis == {0, 1}

\* caller 1 edits the registry, caller 2 tests, deploys and rolls back
OpsOf(c) == IF c = 1 THEN {"add", "remove"} ELSE {"test", "deploy", "rollback"}

\* the arguments of a call: op, the id asked for, the server to add, the
\* ids to deploy, and whether the id of the server to add was generated
ApiCallOf(op, id, server, ids, generated) ==
    [op |-> op, id |-> id, server |-> server, ids |-> ids, generated |-> generated]

NoCall == ApiCallOf("", 0, Server(0, "", ""), {}, FALSE)

\* add_server up to its load: an empty id is generated, an empty status
\* becomes pending; anything else is kept as given
WithDefaults(server, timestamp) ==
    LET withId == IF server.id = 0
                  THEN [server EXCEPT !.id = GenerateServerId(timestamp)]
                  ELSE server
    IN IF withId.status = "" THEN [withId EXCEPT !.status = "pending"] ELSE withId

\* the bodies of the add requests: AddInputs and one with a status of the
\* caller's own
AddBodies == AddInputs \cup {Server(1, "valid", "ready")}

\* the ids asked for: the one callers supply and the first generated one
AskedIds == {1, GenerateServerId(0)}

\* the calls that can be made at a time
ApiCalls(timestamp) ==
    {ApiCallOf("add", WithDefaults(b, timestamp).id, WithDefaults(b, timestamp), {},
               b.id = 0) : b \in AddBodies}
    \cup {ApiCallOf(op, id, Server(0, "", ""), {}, FALSE) :
            op \in {"remove", "test", "rollback"}, id \in AskedIds}
    \cup {ApiCallOf("deploy", 0, Server(0, "", ""), AskedIds, FALSE)}

\* a line of the history
Did(call, result) ==
    [op |-> call.op, id |-> call.id, generated |-> call.generated, result |-> result]

\* Retain that drops only the first entry with the id
RetainFirst(servers, id) ==
    IF FindFirst(servers, id) = 0 THEN servers
    ELSE [i \in 1..(Len(servers) - 1) |->
             IF i < FindFirst(servers, id) THEN servers[i] ELSE servers[i + 1]]

\* servers.retain(|s| s.id != id)
Retain(servers, id) == SelectSeqBy(servers, {e \in Range(servers) : e.id # id})

\* the statuses check_connection leads test_server to store
TestStatuses == {TestStatus(r) : r \in {"true", "false", "err"}}

OutsideApi ==
    UNCHANGED <<pipeVars, fwdVars, aggVars, deployVars, rbVars, localVars, streamVars,
                gwVars, wsVars, fsVars, cdVars,
                scVars, vtVars, anVars, bpVars>>

\* the operation returns to its caller; the history keeps the returns
\* that follow a write
ApiReturn(c, result) ==
    /\ apiPc' = [apiPc EXCEPT ![c] = "idle"]
    /\ apiLog' = IF result = "ok" THEN Append(apiLog, Did(apiCall[c], result))
                 ELSE apiLog

\* a request arrives; add_server fills in the id and the status
ApiBegin(c) ==
    /\ apiPc[c] = "idle"
    /\ apiOps < MaxOps
    /\ \E call \in ApiCalls(clock) :
        /\ call.op \in OpsOf(c)
        /\ apiCall' = [apiCall EXCEPT ![c] = call]
    /\ apiPc' = [apiPc EXCEPT ![c] = "load"]
    /\ apiOps' = apiOps + 1
    /\ UNCHANGED <<registry, apiFile, clock, apiLoaded, apiLocal, apiLog>>
    /\ OutsideApi

\* load_servers at the start of the operation, and what the operation does
\* with the list before it awaits or saves
ApiLoad(c) ==
    /\ apiPc[c] = "load"
    /\ \E r \in (IF apiFile THEN FileOutcomes ELSE {"ok"}) :
        LET loaded == IF apiFile THEN LoadServers(r, registry) ELSE <<(<<>>)>>
            call == apiCall[c]
        IN /\ apiLoaded' = [apiLoaded EXCEPT ![c] = IF loaded = <<>> THEN @ ELSE loaded[1]]
           /\ IF loaded = <<>>
              THEN ApiReturn(c, "err") /\ UNCHANGED apiLocal
              ELSE IF call.op = "add"
              THEN /\ apiLocal' = [apiLocal EXCEPT ![c] = Append(loaded[1], call.server)]
                   /\ apiPc' = [apiPc EXCEPT ![c] = "save"]
                   /\ UNCHANGED apiLog
              ELSE IF call.op = "remove"
              THEN IF Len(Retain(loaded[1], call.id)) = Len(loaded[1])
                   THEN ApiReturn(c, "notfound") /\ UNCHANGED apiLocal
                   ELSE /\ apiLocal' = [apiLocal EXCEPT ![c] = Retain(loaded[1], call.id)]
                        /\ apiPc' = [apiPc EXCEPT ![c] = "save"]
                        /\ UNCHANGED apiLog
              ELSE IF call.op = "deploy"
              THEN /\ apiLocal' = [apiLocal EXCEPT ![c] = Targets(loaded[1], call.ids)]
                   /\ apiPc' = [apiPc EXCEPT ![c] = "await"]
                   /\ UNCHANGED apiLog
              ELSE IF FindFirst(loaded[1], call.id) = 0
                   THEN ApiReturn(c, "notfound") /\ UNCHANGED apiLocal
                   ELSE /\ apiLocal' = [apiLocal EXCEPT ![c] = loaded[1]]
                        /\ apiPc' = [apiPc EXCEPT ![c] = "await"]
                        /\ UNCHANGED apiLog
    /\ UNCHANGED <<registry, apiFile, clock, apiCall, apiOps>>
    /\ OutsideApi

\* what the operation awaited is over. test_server sets the status in the
\* list it loaded; deploy_to_servers and rollback_server load the list
\* again and set their statuses in it
ApiAwait(c) ==
    /\ apiPc[c] = "await"
    /\ LET call == apiCall[c]
       IN IF call.op = "test"
          THEN /\ \E status \in TestStatuses :
                    apiLocal' = [apiLocal EXCEPT ![c] = SetStatus(@, call.id, status)]
               /\ apiPc' = [apiPc EXCEPT ![c] = "save"]
               /\ UNCHANGED <<apiLog, apiLoaded>>
          ELSE \E r \in (IF apiFile THEN FileOutcomes ELSE {"ok"}) :
               LET loaded == IF apiFile THEN LoadServers(r, registry) ELSE <<(<<>>)>>
               IN IF loaded = <<>>
                  THEN ApiReturn(c, "err") /\ UNCHANGED <<apiLocal, apiLoaded>>
                  ELSE /\ apiPc' = [apiPc EXCEPT ![c] = "save"]
                       /\ apiLoaded' = [apiLoaded EXCEPT ![c] = loaded[1]]
                       /\ apiLog' = IF call.op = "deploy"
                                    THEN Append(apiLog, Did(call, "reload"))
                                    ELSE apiLog
                       /\ IF call.op = "rollback"
                          THEN apiLocal' = [apiLocal EXCEPT ![c] =
                                               SetStatus(loaded[1], call.id, "pending")]
                          ELSE \E res \in [1..Len(apiLocal[c]) ->
                                             {"ok", "ConnectionFailed"}] :
                               apiLocal' = [apiLocal EXCEPT ![c] =
                                   ApplyResults(loaded[1],
                                       [t \in 1..Len(apiLocal[c]) |->
                                           TaskResult(apiLocal[c][t], res[t])])]
    /\ UNCHANGED <<registry, apiFile, clock, apiCall, apiOps>>
    /\ OutsideApi

\* ApiSave that keeps the entries the file has gained since the load
ApiSaveKeepingNewer(c) ==
    /\ apiPc[c] = "save"
    /\ \E w \in FileOutcomes :
        /\ IF w = "ok"
           THEN /\ registry' = apiLocal[c] \o
                       SelectSeqBy(registry, Range(registry) \ Range(apiLoaded[c]))
                /\ apiFile' = TRUE
           ELSE UNCHANGED <<registry, apiFile>>
        /\ ApiReturn(c, w)
    /\ UNCHANGED <<clock, apiCall, apiLoaded, apiLocal, apiOps>>
    /\ OutsideApi

\* save_servers of the operation's list, and its return
ApiSave(c) ==
    /\ apiPc[c] = "save"
    /\ \E w \in FileOutcomes :
        /\ IF w = "ok"
           THEN registry' = apiLocal[c] /\ apiFile' = TRUE
           ELSE UNCHANGED <<registry, apiFile>>
        /\ ApiReturn(c, w)
    /\ UNCHANGED <<clock, apiCall, apiLoaded, apiLocal, apiOps>>
    /\ OutsideApi

\* a millisecond passes
ApiTick ==
    /\ apiPc # <<>>
    /\ clock + 1 \in Millis
    /\ clock' = clock + 1
    /\ UNCHANGED <<registry, apiFile, apiPc, apiCall, apiLoaded, apiLocal, apiOps, apiLog>>
    /\ OutsideApi

ApiInit ==
    /\ apiFile \in BOOLEAN
    /\ registry = <<>>
    /\ clock = 0
    /\ apiPc = [c \in Callers |-> "idle"]
    /\ apiCall = [c \in Callers |-> NoCall]
    /\ apiLoaded = [c \in Callers |-> <<>>]
    /\ apiLocal = [c \in Callers |-> <<>>]
    /\ apiOps = 0
    /\ apiLog = <<>>
    /\ hostOk = TRUE
    /\ PipelineInit
    /\ FwdInit
    /\ AggInit
    /\ DeployIdle
    /\ RollbackIdle
    /\ LocalIdle
    /\ StreamIdle
    /\ GatewayIdle
    /\ SocketIdle
    /\ SaveIdle
    /\ CodecIdle
    /\ CommandIdle
    /\ LimiterIdle
    /\ AnalysisIdle
    /\ PressureIdle

ApiNext ==
    \/ \E c \in Callers : ApiBegin(c)
    \/ \E c \in Callers : ApiLoad(c)
    \/ \E c \in Callers : ApiAwait(c)
    \/ \E c \in Callers : ApiSave(c)
    \/ ApiTick

SpecApi == ApiInit /\ [][ApiNext]_vars

(***************************************************************************)
(* SpecCodec: the text of servers.json (config.rs write_json / read_json   *)
(* on a Vec<ServerTarget>)                                                 *)
(*                                                                         *)
(* A text is a sequence of characters. A ServerTarget is the three fields  *)
(* of Server; here each is a string, a sequence of characters that may     *)
(* hold a quote and a backslash. write_json renders the list the way       *)
(* serde_json::to_string_pretty does (two spaces of indent, fields in the  *)
(* order of the struct, quote and backslash escaped); read_json reads any  *)
(* JSON array of objects with string members: white space anywhere between *)
(* tokens, members in any order, unknown members ignored, a missing or a   *)
(* repeated member an error.                                               *)
(***************************************************************************)
\* the characters of a field
TextChars == {"a", "\"", "\\"}

\* the field values
Texts == SeqsUpTo(TextChars, MaxText)

KeyId == <<"i", "d">>
KeyHost == <<"h", "o", "s", "t">>
KeyStatus == <<"s", "t", "a", "t", "u", "s">>
KeyNote == <<"n", "o", "t", "e">>

\* the lists saved and loaded: up to two servers
CodecServers == [id : Texts, host : {<<"a">>}, status : Texts]
CodecLists == {<<>>} \cup {<<e>> : e \in CodecServers}
                 \cup {<<e, f>> : e \in CodecServers, f \in CodecServers}

RECURSIVE EscapeQuotesOnly(_)
\* Escape that leaves a backslash as it is
EscapeQuotesOnly(text) ==
    IF text = <<>> THEN <<>>
    ELSE (IF Head(text) = "\"" THEN <<"\\", "\"">> ELSE <<Head(text)>>)
         \o EscapeQuotesOnly(Tail(text))

RECURSIVE Escape(_)
\* the inside of a JSON string: a quote and a backslash get a backslash
Escape(text) ==
    IF text = <<>> THEN <<>>
    ELSE (IF Head(text) \in {"\"", "\\"} THEN <<"\\", Head(text)>> ELSE <<Head(text)>>)
         \o Escape(Tail(text))

Quoted(text) == <<"\"">> \o Escape(text) \o <<"\"">>

\* a line break and n levels of indent, when pretty
Break(pretty, n) == IF pretty THEN <<"\n">> \o Repeat(" ", 2 * n) ELSE <<>>

\* "key": "value"
Member(pretty, key, value) ==
    Quoted(key) \o <<":">> \o (IF pretty THEN <<" ">> ELSE <<>>) \o Quoted(value)

\* one ServerTarget as an object at indent 1
RenderServer(pretty, e) ==
    <<"{">> \o Break(pretty, 2) \o Member(pretty, KeyId, e.id) \o <<",">>
            \o Break(pretty, 2) \o Member(pretty, KeyHost, e.host) \o <<",">>
            \o Break(pretty, 2) \o Member(pretty, KeyStatus, e.status)
            \o Break(pretty, 1) \o <<"}">>

RECURSIVE RenderServers(_, _)
RenderServers(pretty, list) ==
    IF list = <<>> THEN <<>>
    ELSE Break(pretty, 1) \o RenderServer(pretty, Head(list))
         \o (IF Tail(list) = <<>> THEN <<>> ELSE <<",">>)
         \o RenderServers(pretty, Tail(list))

\* the array of the servers
Render(pretty, list) ==
    IF list = <<>> THEN <<"[", "]">>
    ELSE <<"[">> \o RenderServers(pretty, list) \o Break(pretty, 0) \o <<"]">>

\* serde_json::to_string_pretty(&servers.to_vec())
Serialize(list) == Render(TRUE, list)

\* texts no save_servers call wrote: the same array on one line, and with
\* the members in another order and a member ServerTarget does not have
Reordered(e) ==
    <<"{">> \o Member(FALSE, KeyStatus, e.status) \o <<",">>
            \o Member(FALSE, KeyNote, e.id) \o <<",">>
            \o Member(FALSE, KeyHost, e.host) \o <<",", " ">>
            \o Member(FALSE, KeyId, e.id) \o <<"}">>

ForeignTexts ==
    {Render(FALSE, l) : l \in CodecLists}
    \cup {<<"[">> \o Reordered(e) \o <<"]", "\n">> : e \in CodecServers}
    \cup {<<"[">>, <<"[", "{", "}", "]">>, <<>>}

\* a step of the reader: where it is, whether it failed, what it read
Read(ok, pos, val) == [ok |-> ok, pos |-> pos, val |-> val]

RECURSIVE SkipWs(_, _)
SkipWs(t, p) == IF p <= Len(t) /\ t[p] \in {" ", "\n"} THEN SkipWs(t, p + 1) ELSE p

\* the character at p, or "" past the end
CharAt(t, p) == IF p <= Len(t) THEN t[p] ELSE ""

RECURSIVE ReadChars(_, _, _)
\* the inside of a string up to its closing quote
ReadChars(t, p, acc) ==
    IF p > Len(t) THEN Read(FALSE, p, acc)
    ELSE IF t[p] = "\"" THEN Read(TRUE, p + 1, acc)
    ELSE IF t[p] = "\\"
         THEN IF CharAt(t, p + 1) \in {"\"", "\\"}
              THEN ReadChars(t, p + 2, Append(acc, t[p + 1]))
              ELSE Read(FALSE, p, acc)
    ELSE ReadChars(t, p + 1, Append(acc, t[p]))

ReadString(t, p) ==
    IF CharAt(t, p) = "\"" THEN ReadChars(t, p + 1, <<>>) ELSE Read(FALSE, p, <<>>)

RECURSIVE ReadMembers(_, _, _)
\* the members of an object after its brace, as <<key, value>> pairs
ReadMembers(t, p, acc) ==
    LET key == ReadString(t, SkipWs(t, p))
        colon == SkipWs(t, key.pos)
        value == ReadString(t, SkipWs(t, colon + 1))
        after == SkipWs(t, value.pos)
    IN IF ~key.ok \/ CharAt(t, colon) # ":" \/ ~value.ok THEN Read(FALSE, p, acc)
       ELSE IF CharAt(t, after) = ","
            THEN ReadMembers(t, after + 1, Append(acc, <<key.val, value.val>>))
       ELSE IF CharAt(t, after) = "}"
            THEN Read(TRUE, after + 1, Append(acc, <<key.val, value.val>>))
       ELSE Read(FALSE, after, acc)

\* the values the pairs give a key
ValuesOf(pairs, key) == SelectSeqBy(pairs, {pr \in Range(pairs) : pr[1] = key})

\* the Deserialize of ServerTarget: every field once, other members ignored
ReadServer(t, p) ==
    IF CharAt(t, p) # "{" THEN Read(FALSE, p, <<>>)
    ELSE LET members == ReadMembers(t, p + 1, <<>>)
             once == \A key \in {KeyId, KeyHost, KeyStatus} :
                        Cardinality({i \in 1..Len(members.val) :
                                        members.val[i][1] = key}) = 1
         IN IF members.ok /\ once
            THEN Read(TRUE, members.pos,
                      [id |-> ValuesOf(members.val, KeyId)[1][2],
                       host |-> ValuesOf(members.val, KeyHost)[1][2],
                       status |-> ValuesOf(members.val, KeyStatus)[1][2]])
            ELSE Read(FALSE, p, <<>>)

RECURSIVE ReadServers(_, _, _)
\* the elements of an array after its bracket
ReadServers(t, p, acc) ==
    LET e == ReadServer(t, SkipWs(t, p))
        after == SkipWs(t, e.pos)
    IN IF ~e.ok THEN Read(FALSE, p, acc)
       ELSE IF CharAt(t, after) = "," THEN ReadServers(t, after + 1, Append(acc, e.val))
       ELSE IF CharAt(t, after) = "]" THEN Read(TRUE, after + 1, Append(acc, e.val))
       ELSE Read(FALSE, after, acc)

\* serde_json::from_str::<Vec<ServerTarget>>(&content): <<list>>, or <<>>
\* for an error
Parse(t) ==
    LET start == SkipWs(t, 1)
        list == IF CharAt(t, start) # "[" THEN Read(FALSE, start, <<>>)
                ELSE IF CharAt(t, SkipWs(t, start + 1)) = "]"
                     THEN Read(TRUE, SkipWs(t, start + 1) + 1, <<>>)
                ELSE ReadServers(t, start + 1, <<>>)
    IN IF list.ok /\ SkipWs(t, list.pos) = Len(t) + 1 THEN <<list.val>> ELSE <<>>

OutsideCodec ==
    UNCHANGED <<pipeVars, fwdVars, aggVars, registry, deployVars, rbVars, localVars,
                streamVars, gwVars, wsVars, fsVars, apiVars, scVars, vtVars, anVars, bpVars>>

\* load_servers: the empty list when there is no file, else read_json
CodecLoad ==
    /\ cdList' = IF cdFile = <<>> THEN <<(<<>>)>> ELSE Parse(cdFile[1])
    /\ cdLast' = "load"
    /\ UNCHANGED <<cdFile, cdSaved>>
    /\ OutsideCodec

\* save_servers(list), the call that creates the file
CodecSave ==
    /\ cdLast = ""
    /\ cdFile = <<>>
    /\ \E list \in CodecLists :
        /\ cdFile' = <<Serialize(list)>>
        /\ cdSaved' = <<list>>
    /\ cdLast' = "save"
    /\ UNCHANGED cdList
    /\ OutsideCodec

\* save_servers of the list load_servers has just returned
CodecSaveLoaded ==
    /\ cdLast = "load"
    /\ cdList # <<>>
    /\ cdFile' = <<Serialize(cdList[1])>>
    /\ cdSaved' = cdList
    /\ cdLast' = "save_loaded"
    /\ UNCHANGED cdList
    /\ OutsideCodec

CodecInit ==
    /\ cdFile \in {<<>>} \cup {<<t>> : t \in ForeignTexts}
    /\ cdSaved = <<>>
    /\ cdList = <<>>
    /\ cdLast = ""
    /\ hostOk = TRUE
    /\ PipelineInit
    /\ FwdInit
    /\ AggInit
    /\ registry = <<>>
    /\ DeployIdle
    /\ RollbackIdle
    /\ LocalIdle
    /\ StreamIdle
    /\ GatewayIdle
    /\ SocketIdle
    /\ SaveIdle
    /\ ApiIdle
    /\ CommandIdle
    /\ LimiterIdle
    /\ AnalysisIdle
    /\ PressureIdle

CodecNext ==
    \/ CodecLoad
    \/ CodecSave
    \/ CodecSaveLoaded

SpecCodec == CodecInit /\ [][CodecNext]_vars

(***************************************************************************)
(* SpecCommand: one stream_remote_command call (ssh.rs) on a connected     *)
(* session, the remote command it runs, and the caller's receive loop      *)
(* (install_node_via_nvm, remote.rs)                                       *)
(*                                                                         *)
(* An output stream is the sequence of its lines; a line is a sequence of  *)
(* pieces of text.                                                         *)
(***************************************************************************)
\* the command writes at most this many lines
MaxWrites == 3

\* mpsc::channel::<String>(100) of install_node_via_nvm
LINE_CHANNEL_CAPACITY == 100

LineTexts == {<<"x">>, <<"STDERR: ", "x">>}

\* format!("STDERR: {}", line)
Labelled(line) == <<"STDERR: ">> \o line

\* status.code().unwrap_or(-1)
ExitCode(status) == IF status = <<>> THEN -1 ELSE status[1]

\* what the two for loops send, in order
Pending(output) ==
    output.stdout \o [i \in 1..Len(output.stderr) |-> Labelled(output.stderr[i])]

CommandOutput(output) ==
    [stdout |-> output.stdout, stderr |-> output.stderr,
     exit_code |-> ExitCode(output.status)]

OutsideCommand ==
    UNCHANGED <<pipeVars, fwdVars, aggVars, registry, deployVars, rbVars, localVars,
                streamVars, gwVars, wsVars, fsVars, apiVars, cdVars, vtVars, anVars, bpVars>>

\* the remote command writes a line to stdout or to stderr
RemoteWrite ==
    /\ scPc = "output"
    /\ scExit = <<>>
    /\ Len(scStdout) + Len(scStderr) < MaxWrites
    /\ \E line \in LineTexts :
        \/ scStdout' = Append(scStdout, line) /\ UNCHANGED scStderr
        \/ scStderr' = Append(scStderr, line) /\ UNCHANGED scStdout
    /\ UNCHANGED <<scExit, scPc, scOutput, scNext, scChan, scRxOpen, scLines, scResult>>
    /\ OutsideCommand

\* the remote command ends, with an exit code or by a signal
RemoteExit ==
    /\ scPc = "output"
    /\ scExit = <<>>
    /\ \E status \in {<<0>>, <<1>>, <<>>} : scExit' = <<status>>
    /\ UNCHANGED <<scStdout, scStderr, scPc, scOutput, scNext, scChan, scRxOpen, scLines,
                   scResult>>
    /\ OutsideCommand

\* tx.send(line).await of the loops, from position `next` of `pending`: the
\* function returns Ok(CommandOutput) after the last line
AfterSend(output, next) ==
    IF next > Len(Pending(output))
    THEN /\ scPc' = "done"
         /\ scResult' = <<CommandOutput(output)>>
    ELSE /\ scPc' = "send"
         /\ UNCHANGED scResult

\* session.command(command).output().await returns Ok: the command has
\* ended and all it wrote is in the buffers
AwaitOutput ==
    /\ scPc = "output"
    /\ scExit # <<>>
    /\ LET output == [stdout |-> scStdout, stderr |-> scStderr, status |-> scExit[1]]
       IN  /\ scOutput' = <<output>>
           /\ AfterSend(output, 1)
    /\ UNCHANGED <<scStdout, scStderr, scExit, scNext, scChan, scRxOpen, scLines>>
    /\ OutsideCommand

\* output().await returns Err ("Failed to execute remote command")
AwaitOutputFailed ==
    /\ scPc = "output"
    /\ scPc' = "failed"
    /\ UNCHANGED <<scStdout, scStderr, scExit, scOutput, scNext, scChan, scRxOpen, scLines,
                   scResult>>
    /\ OutsideCommand

\* let _ = tx.send(..).await: the line is queued, waiting while the channel
\* is full; the error of a dropped receiver is ignored
SendLine ==
    /\ scPc = "send"
    /\ scRxOpen => Len(scChan) < LINE_CHANNEL_CAPACITY
    /\ scChan' = IF scRxOpen THEN Append(scChan, Pending(scOutput[1])[scNext]) ELSE scChan
    /\ scNext' = scNext + 1
    /\ AfterSend(scOutput[1], scNext + 1)
    /\ UNCHANGED <<scStdout, scStderr, scExit, scOutput, scRxOpen, scLines>>
    /\ OutsideCommand

\* while let Some(line) = line_rx.recv().await
LineRecv ==
    /\ scRxOpen
    /\ scChan # <<>>
    /\ scLines' = Append(scLines, Head(scChan))
    /\ scChan' = Tail(scChan)
    /\ UNCHANGED <<scStdout, scStderr, scExit, scPc, scOutput, scNext, scRxOpen, scResult>>
    /\ OutsideCommand

\* the caller is dropped, and line_rx with it
LineRxDrop ==
    /\ scRxOpen
    /\ scRxOpen' = FALSE
    /\ scChan' = <<>>
    /\ UNCHANGED <<scStdout, scStderr, scExit, scPc, scOutput, scNext, scLines, scResult>>
    /\ OutsideCommand

CommandInit ==
    /\ scStdout = <<>>
    /\ scStderr = <<>>
    /\ scExit = <<>>
    /\ scPc = "output"
    /\ scOutput = <<>>
    /\ scNext = 1
    /\ scChan = <<>>
    /\ scRxOpen = TRUE
    /\ scLines = <<>>
    /\ scResult = <<>>
    /\ hostOk = TRUE
    /\ PipelineInit
    /\ FwdInit
    /\ AggInit
    /\ registry = <<>>
    /\ DeployIdle
    /\ RollbackIdle
    /\ LocalIdle
    /\ StreamIdle
    /\ GatewayIdle
    /\ SocketIdle
    /\ SaveIdle
    /\ ApiIdle
    /\ CodecIdle
    /\ LimiterIdle
    /\ AnalysisIdle
    /\ PressureIdle

CommandNext ==
    \/ RemoteWrite
    \/ RemoteExit
    \/ AwaitOutput
    \/ AwaitOutputFailed
    \/ SendLine
    \/ LineRecv
    \/ LineRxDrop

SpecCommand == CommandInit /\ [][CommandNext]_vars

\* SpecCommand with the runtime's scheduling: the call and the caller's
\* receive loop are polled whenever they can make a step. Nothing is asked
\* of the remote command: it may write and then run on without ending.
SpecCommandFair ==
    /\ SpecCommand
    /\ WF_vars(AwaitOutput)
    /\ WF_vars(SendLine)
    /\ WF_vars(LineRecv)

(***************************************************************************)
(* SpecLimiter: enforce_vt_rate_limit (skills.rs), called by scan_skill    *)
(* requests that the runtime serves side by side                           *)
(***************************************************************************)
\* the clock is read at most this many ticks after the start
MaxTicks == 4

VT_RATE_LIMIT_MS == 15000

\* the clock is observed in steps of a third of the interval
TICK_MS == VT_RATE_LIMIT_MS \div 3

VtCallers == {1, 2}

\* u64::saturating_sub
SaturatingSub(a, b) == IF a >= b THEN a - b ELSE 0

\* the time the sleep of a call takes that read now_ms and then last; 0
\* when it does not sleep
VtWait(now_ms, last) ==
    IF last > 0 /\ SaturatingSub(now_ms, last) < VT_RATE_LIMIT_MS
    THEN VT_RATE_LIMIT_MS - SaturatingSub(now_ms, last)
    ELSE 0

VtEvent(c, kind, at) == [caller |-> c, kind |-> kind, at |-> at]

OutsideLimiter ==
    UNCHANGED <<pipeVars, fwdVars, aggVars, registry, deployVars, rbVars, localVars,
                streamVars, gwVars, wsVars, fsVars, apiVars, cdVars, scVars, anVars, bpVars>>

\* the call starts: let now_ms = SystemTime::now()
VtEnter(c) ==
    /\ vtPc[c] = "idle"
    /\ vtNow' = [vtNow EXCEPT ![c] = vtClock]
    /\ vtPc' = [vtPc EXCEPT ![c] = "load"]
    /\ vtLog' = Append(vtLog, VtEvent(c, "enter", vtClock))
    /\ UNCHANGED <<vtClock, LAST_VT_REQUEST, vtWake>>
    /\ OutsideLimiter

\* let last = LAST_VT_REQUEST.load(..), and the sleep is started if the
\* last request is too recent
VtLoad(c) ==
    /\ vtPc[c] = "load"
    /\ LET wait_ms == VtWait(vtNow[c], LAST_VT_REQUEST)
       IN  IF wait_ms > 0
           THEN /\ vtWake' = [vtWake EXCEPT ![c] = vtClock + wait_ms]
                /\ vtPc' = [vtPc EXCEPT ![c] = "sleep"]
           ELSE /\ vtPc' = [vtPc EXCEPT ![c] = "stamp"]
                /\ UNCHANGED vtWake
    /\ UNCHANGED <<vtClock, LAST_VT_REQUEST, vtNow, vtLog>>
    /\ OutsideLimiter

\* tokio::time::sleep(wait_ms).await is over
VtWake(c) ==
    /\ vtPc[c] = "sleep"
    /\ vtClock >= vtWake[c]
    /\ vtPc' = [vtPc EXCEPT ![c] = "stamp"]
    /\ UNCHANGED <<vtClock, LAST_VT_REQUEST, vtNow, vtWake, vtLog>>
    /\ OutsideLimiter

\* let updated_now = SystemTime::now()
VtUpdatedNow(c) ==
    /\ vtPc[c] = "stamp"
    /\ vtNow' = [vtNow EXCEPT ![c] = vtClock]
    /\ vtPc' = [vtPc EXCEPT ![c] = "store"]
    /\ UNCHANGED <<vtClock, LAST_VT_REQUEST, vtWake, vtLog>>
    /\ OutsideLimiter

\* LAST_VT_REQUEST.store(updated_now, ..), and the call returns: the
\* request it permits is timed by the stamp
VtStore(c) ==
    /\ vtPc[c] = "store"
    /\ LAST_VT_REQUEST' = vtNow[c]
    /\ vtPc' = [vtPc EXCEPT ![c] = "done"]
    /\ vtLog' = Append(vtLog, VtEvent(c, "return", vtNow[c]))
    /\ UNCHANGED <<vtClock, vtNow, vtWake>>
    /\ OutsideLimiter

\* time passes
VtTick ==
    /\ vtClock < (MaxTicks + 1) * TICK_MS
    /\ vtClock' = vtClock + TICK_MS
    /\ UNCHANGED <<LAST_VT_REQUEST, vtPc, vtNow, vtWake, vtLog>>
    /\ OutsideLimiter

LimiterInit ==
    /\ vtClock = TICK_MS
    /\ LAST_VT_REQUEST = 0
    /\ vtPc = [c \in VtCallers |-> "idle"]
    /\ vtNow = [c \in VtCallers |-> 0]
    /\ vtWake = [c \in VtCallers |-> 0]
    /\ vtLog = <<>>
    /\ hostOk = TRUE
    /\ PipelineInit
    /\ FwdInit
    /\ AggInit
    /\ registry = <<>>
    /\ DeployIdle
    /\ RollbackIdle
    /\ LocalIdle
    /\ StreamIdle
    /\ GatewayIdle
    /\ SocketIdle
    /\ SaveIdle
    /\ ApiIdle
    /\ CodecIdle
    /\ CommandIdle
    /\ AnalysisIdle
    /\ PressureIdle

LimiterNext ==
    \/ \E c \in VtCallers : VtEnter(c)
    \/ \E c \in VtCallers : VtLoad(c)
    \/ \E c \in VtCallers : VtWake(c)
    \/ \E c \in VtCallers : VtUpdatedNow(c)
    \/ \E c \in VtCallers : VtStore(c)
    \/ VtTick

SpecLimiter == LimiterInit /\ [][LimiterNext]_vars

(***************************************************************************)
(* SpecAnalysis: the rate-limit check of analyze_error (log_analyzer.rs),  *)
(* called by requests that the runtime serves side by side. analyze_cost   *)
(* (config_analyzer.rs) has the same check on its own static.              *)
(***************************************************************************)
\* analyze_error is called at most this many times
MaxAnalyses == 3

RATE_LIMIT_SECONDS == 10

\* the clock is observed in steps of half the window
TICK_SECONDS == RATE_LIMIT_SECONDS \div 2

AnCallers == {1, 2}

\* what `RATE_LIMIT_SECONDS - (now - last)` gives: with now < last the
\* subtraction overflows, which panics in a build with overflow checks and
\* wraps (twice, modulo 2^64) in a build without
RemainingOutcomes(now, last) ==
    IF now >= last
    THEN {[kind |-> "rejected", wait |-> RATE_LIMIT_SECONDS - (now - last)]}
    ELSE {[kind |-> "panic", wait |-> 0],
          [kind |-> "rejected", wait |-> RATE_LIMIT_SECONDS + (last - now)]}

AnEvent(c, kind, wait) == [caller |-> c, kind |-> kind, now |-> anNow[c], wait |-> wait]

OutsideAnalysis ==
    UNCHANGED <<pipeVars, fwdVars, aggVars, registry, deployVars, rbVars, localVars,
                streamVars, gwVars, wsVars, fsVars, apiVars, cdVars, scVars, vtVars, bpVars>>

\* the call starts: let now = SystemTime::now()
AnEnter(c) ==
    /\ anPc[c] = "idle"
    /\ anCalls < MaxAnalyses
    /\ anCalls' = anCalls + 1
    /\ anNow' = [anNow EXCEPT ![c] = anClock]
    /\ anPc' = [anPc EXCEPT ![c] = "load"]
    /\ anLog' = Append(anLog, [caller |-> c, kind |-> "enter", now |-> anClock, wait |-> 0])
    /\ UNCHANGED <<anClock, LAST_ANALYSIS>>
    /\ OutsideAnalysis

\* let last = LAST_ANALYSIS.load(..) and the check: Err(AnalysisRateLimited)
\* within the window, or on to the store
AnCheck(c) ==
    /\ anPc[c] = "load"
    /\ IF SaturatingSub(anNow[c], LAST_ANALYSIS) < RATE_LIMIT_SECONDS
       THEN /\ \E remaining \in RemainingOutcomes(anNow[c], LAST_ANALYSIS) :
                anLog' = Append(anLog, AnEvent(c, remaining.kind, remaining.wait))
            /\ anPc' = [anPc EXCEPT ![c] = "idle"]
       ELSE /\ anPc' = [anPc EXCEPT ![c] = "store"]
            /\ UNCHANGED anLog
    /\ UNCHANGED <<anClock, LAST_ANALYSIS, anNow, anCalls>>
    /\ OutsideAnalysis

\* LAST_ANALYSIS.store(now, ..): the call goes on to the AI provider
AnStore(c) ==
    /\ anPc[c] = "store"
    /\ LAST_ANALYSIS' = anNow[c]
    /\ anLog' = Append(anLog, AnEvent(c, "admitted", 0))
    /\ anPc' = [anPc EXCEPT ![c] = "idle"]
    /\ UNCHANGED <<anClock, anNow, anCalls>>
    /\ OutsideAnalysis

\* time passes
AnTick ==
    /\ anClock < RATE_LIMIT_SECONDS + (MaxTicks + 1) * TICK_SECONDS
    /\ anClock' = anClock + TICK_SECONDS
    /\ UNCHANGED <<LAST_ANALYSIS, anPc, anNow, anCalls, anLog>>
    /\ OutsideAnalysis

AnalysisInit ==
    /\ anClock = RATE_LIMIT_SECONDS
    /\ LAST_ANALYSIS = 0
    /\ anPc = [c \in AnCallers |-> "idle"]
    /\ anNow = [c \in AnCallers |-> 0]
    /\ anCalls = 0
    /\ anLog = <<>>
    /\ hostOk = TRUE
    /\ PipelineInit
    /\ FwdInit
    /\ AggInit
    /\ registry = <<>>
    /\ DeployIdle
    /\ RollbackIdle
    /\ LocalIdle
    /\ StreamIdle
    /\ GatewayIdle
    /\ SocketIdle
    /\ SaveIdle
    /\ ApiIdle
    /\ CodecIdle
    /\ CommandIdle
    /\ LimiterIdle
    /\ PressureIdle

AnalysisNext ==
    \/ \E c \in AnCallers : AnEnter(c)
    \/ \E c \in AnCallers : AnCheck(c)
    \/ \E c \in AnCallers : AnStore(c)
    \/ AnTick

SpecAnalysis == AnalysisInit /\ [][AnalysisNext]_vars

(***************************************************************************)
(* SpecPressure: one worker of a deploy with its per-server channel, its   *)
(* forwarding task and the aggregate channel (deploy_single_server,        *)
(* multi_server.rs 193-262; routes/multi_server.rs 177-208), and the       *)
(* single-server install stream (routes/remote.rs 172-205), with the       *)
(* channels as counts of queued events. The pipeline sends as many events  *)
(* as it likes and then returns: the lines of the node install make that   *)
(* number as large as the remote output is long. Every channel holds       *)
(* CHANNEL_CAPACITY events and a send waits while its channel is full.     *)
(***************************************************************************)
\* the senders of the per-server channel still alive, with per_server_tx
\* kept by deploy_single_server and a clone handed to the pipeline
PerServerSendersWithClone(pipe) == 1

\* the senders of the per-server channel still alive: per_server_tx is moved
\* into install_openclaw_remote and dropped when that returns
PerServerSenders(pipe) == IF pipe = "returned" THEN 0 ELSE 1

\* the senders of the channel the websocket handler reads. Multi-server:
\* progress_tx is owned by deploy_to_servers until it returns, the clones of
\* the worker and its forwarding task are gone once the worker is joined.
\* Single-server: tx and the clone given to the pipeline are dropped when
\* the spawned block ends, which is when the pipeline has returned.
AggSenders ==
    IF bpMode = "multi"
    THEN (IF bpDeploy = "returned" THEN 0 ELSE 1)
    ELSE (IF bpPipe = "returned" THEN 0 ELSE 1)

OutsidePressure ==
    UNCHANGED <<pipeVars, fwdVars, aggVars, registry, deployVars, rbVars, localVars,
                streamVars, gwVars, wsVars, fsVars, apiVars, cdVars, scVars, vtVars, anVars>>

\* send_progress: the pipeline starts tx.send(progress).await
PressEmit ==
    /\ bpMode # "off"
    /\ bpPipe = "run"
    /\ bpPipe' = "sending"
    /\ UNCHANGED <<bpMode, bpPerServer, bpRxOpen, bpFwd, bpAgg, bpSink, bpDeploy>>
    /\ OutsidePressure

\* the send completes: the event is queued once the channel has room, or the
\* receiver is gone and the error is only logged
PressSent ==
    /\ bpPipe = "sending"
    /\ IF bpMode = "multi"
       THEN /\ bpRxOpen => bpPerServer < CHANNEL_CAPACITY
            /\ bpPerServer' = IF bpRxOpen THEN bpPerServer + 1 ELSE bpPerServer
            /\ UNCHANGED bpAgg
       ELSE /\ bpSink = "open" => bpAgg < CHANNEL_CAPACITY
            /\ bpAgg' = IF bpSink = "open" THEN bpAgg + 1 ELSE bpAgg
            /\ UNCHANGED bpPerServer
    /\ bpPipe' = "run"
    /\ UNCHANGED <<bpMode, bpRxOpen, bpFwd, bpSink, bpDeploy>>
    /\ OutsidePressure

\* install_openclaw_remote returns, Ok or Err
PressReturn ==
    /\ bpMode # "off"
    /\ bpPipe = "run"
    /\ bpPipe' = "returned"
    /\ UNCHANGED <<bpMode, bpPerServer, bpRxOpen, bpFwd, bpAgg, bpSink, bpDeploy>>
    /\ OutsidePressure

\* per_server_rx.recv().await of the forwarding task: an event, or None
\* when the channel is empty and has no sender left
PressFwdRecv ==
    /\ bpFwd = "recv"
    /\ IF bpPerServer > 0
       THEN /\ bpPerServer' = bpPerServer - 1
            /\ bpFwd' = "send"
            /\ UNCHANGED bpRxOpen
       ELSE /\ PerServerSenders(bpPipe) = 0
            /\ bpFwd' = "done"
            /\ bpRxOpen' = FALSE
            /\ UNCHANGED bpPerServer
    /\ UNCHANGED <<bpMode, bpPipe, bpAgg, bpSink, bpDeploy>>
    /\ OutsidePressure

\* fwd_tx.send(..).await: queued once the aggregate channel has room; with
\* the receiver gone the task breaks and drops per_server_rx
PressFwdSend ==
    /\ bpFwd = "send"
    /\ IF bpSink = "open"
       THEN /\ bpAgg < CHANNEL_CAPACITY
            /\ bpAgg' = bpAgg + 1
            /\ bpFwd' = "recv"
            /\ UNCHANGED <<bpPerServer, bpRxOpen>>
       ELSE /\ bpFwd' = "stopped"
            /\ bpRxOpen' = FALSE
            /\ bpPerServer' = 0
            /\ UNCHANGED bpAgg
    /\ UNCHANGED <<bpMode, bpPipe, bpSink, bpDeploy>>
    /\ OutsidePressure

\* forward_handle.await after the pipeline has returned: the worker has its
\* result and join_next yields it
PressJoin ==
    /\ bpDeploy = "join"
    /\ bpPipe = "returned"
    /\ bpFwd \in {"done", "stopped"}
    /\ bpDeploy' = "joined"
    /\ UNCHANGED <<bpMode, bpPipe, bpPerServer, bpRxOpen, bpFwd, bpAgg, bpSink>>
    /\ OutsidePressure

\* join_next yields None: the statuses are written and deploy_to_servers
\* returns, dropping progress_tx
PressDeployReturn ==
    /\ bpDeploy = "joined"
    /\ bpDeploy' = "returned"
    /\ UNCHANGED <<bpMode, bpPipe, bpPerServer, bpRxOpen, bpFwd, bpAgg, bpSink>>
    /\ OutsidePressure

\* the websocket handler takes an event and writes it to the socket; a
\* failed write breaks its loop, and the receiver is dropped with it
PressConsume ==
    /\ bpMode # "off"
    /\ bpSink = "open"
    /\ bpAgg > 0
    /\ \E socketOk \in BOOLEAN :
        IF socketOk
        THEN bpAgg' = bpAgg - 1 /\ UNCHANGED bpSink
        ELSE bpAgg' = 0 /\ bpSink' = "dropped"
    /\ UNCHANGED <<bpMode, bpPipe, bpPerServer, bpRxOpen, bpFwd, bpDeploy>>
    /\ OutsidePressure

\* rx.recv().await yields None: the channel is empty and has no sender left
PressStreamEnd ==
    /\ bpMode # "off"
    /\ bpSink = "open"
    /\ bpAgg = 0
    /\ AggSenders = 0
    /\ bpSink' = "ended"
    /\ UNCHANGED <<bpMode, bpPipe, bpPerServer, bpRxOpen, bpFwd, bpAgg, bpDeploy>>
    /\ OutsidePressure

PressureInit ==
    /\ bpMode \in {"multi", "single"}
    /\ bpPipe = "run"
    /\ bpPerServer = 0
    /\ bpRxOpen = (bpMode = "multi")
    /\ bpFwd = (IF bpMode = "multi" THEN "recv" ELSE "none")
    /\ bpAgg = 0
    /\ bpSink = "open"
    /\ bpDeploy = (IF bpMode = "multi" THEN "join" ELSE "none")
    /\ hostOk = TRUE
    /\ PipelineInit
    /\ FwdInit
    /\ AggInit
    /\ registry = <<>>
    /\ DeployIdle
    /\ RollbackIdle
    /\ LocalIdle
    /\ StreamIdle
    /\ GatewayIdle
    /\ SocketIdle
    /\ SaveIdle
    /\ ApiIdle
    /\ CodecIdle
    /\ CommandIdle
    /\ LimiterIdle
    /\ AnalysisIdle

PressureNext ==
    \/ PressEmit
    \/ PressSent
    \/ PressReturn
    \/ PressFwdRecv
    \/ PressFwdSend
    \/ PressJoin
    \/ PressDeployReturn
    \/ PressConsume
    \/ PressStreamEnd

SpecPressure == PressureInit /\ [][PressureNext]_vars

\* the steps of the tasks other than the pipeline's decision to send one
\* more event
PressProgress ==
    \/ PressSent
    \/ PressReturn
    \/ PressFwdRecv
    \/ PressFwdSend
    \/ PressJoin
    \/ PressDeployReturn
    \/ PressConsume
    \/ PressStreamEnd

\* SpecPressure under the premises of the termination claim: while some
\* task can make a step, one of them is polled (the runtime polls each of
\* them, which asks more); the websocket handler is one of these tasks, so
\* it keeps receiving or drops its receiver; and the pipeline sends finitely
\* many events (every remote command returns, and its output is finite)
SpecPressureFair ==
    /\ SpecPressure
    /\ WF_vars(PressProgress)
    /\ SF_vars(PressReturn)

(***************************************************************************)
(* Properties of the installation pipeline and the deploy worker           *)
(***************************************************************************)
\* the stage order the pipeline is specified to follow
ClaimedOrder ==
    <<"connection", "node", "openclaw", "config", "daemon_install", "daemon_start",
      "complete">>

\* a call whose result makes its stage fail (the version probe never does)
FailingResult(call) ==
    \/ call.cmd = "check_connection" /\ call.result # "true"
    \/ /\ call.cmd \in {"nvm_install", "npm_install", "write_config", "install_daemon",
                        "start_daemon"}
       /\ call.result # "ok"

\* the stage function that makes a call
CallStage(cmd) ==
    CASE cmd = "check_connection" -> "connection"
      [] cmd \in {"node_version", "nvm_install"} -> "node"
      [] cmd = "npm_install" -> "openclaw"
      [] cmd = "write_config" -> "config"
      [] cmd = "install_daemon" -> "daemon_install"
      [] cmd = "start_daemon" -> "daemon_start"

\* the stages of the completed events among evs, in order
RECURSIVE CompletedIn(_)
CompletedIn(evs) ==
    IF evs = <<>> THEN <<>>
    ELSE IF Head(evs).status = "completed"
         THEN <<Head(evs).stage>> \o CompletedIn(Tail(evs))
         ELSE CompletedIn(Tail(evs))

FailedEvents == {i \in 1..Len(progressLog) : progressLog[i].status = "failed"}

\* C3: the stages of a run start in the fixed order connection, node,
\* openclaw, config, daemon (install), daemon (start), complete, none twice,
\* and each only after the calls of all earlier stages have succeeded.
C3_StagesInOrder ==
    /\ IsPrefix(started, ClaimedOrder)
    /\ \A i \in 1..Len(cmdLog) :
          FailingResult(cmdLog[i]) => started[Len(started)] = CallStage(cmdLog[i].cmd)
    /\ \A k \in 2..Len(started) :
          \E i \in 1..Len(cmdLog) :
             /\ CallStage(cmdLog[i].cmd) = started[k - 1]
             /\ ~FailingResult(cmdLog[i])

\* a run that went through all seven stages
C3_Witness == started = ClaimedOrder /\ pipeResult = "ok"

\* C4: once a stage's call has failed, the pipeline has returned an error:
\* that call is the last one made (no retry, no command of a later stage),
\* and after the failure at most the stage's own failed event is sent.
C4_FailureAborts ==
    \A i \in 1..Len(cmdLog) :
       FailingResult(cmdLog[i]) =>
          /\ i = Len(cmdLog)
          /\ pipePc = Returned
          /\ pipeResult \notin {None, "ok"}
          /\ started[Len(started)] = CallStage(cmdLog[i].cmd)
          /\ failMark \in 0..Len(progressLog)
          /\ LET after == SubSeq(progressLog, failMark + 1, Len(progressLog))
             IN  \/ after = <<>>
                 \/ after = <<Ev(EventStage(started[Len(started)]), "failed")>>
          /\ \A j \in FailedEvents : j = Len(progressLog)

\* the package install failed and the worker has since produced its result
C4_Witness ==
    /\ cmdLog # <<>>
    /\ cmdLog[Len(cmdLog)] = Call("npm_install", "nonzero")
    /\ deployResult # <<>>

\* C5 (as claimed): a run that has returned an error has sent exactly one
\* failed event.
C5_OneFailedEventPerError ==
    pipeResult \notin {None, "ok"} => Cardinality(FailedEvents) = 1

\* C6 (as claimed): a successful worker's completed_stages are exactly the
\* stages of the completed events the pipeline sent, in order.
C6_CompletedStagesExact ==
    (deployResult # <<>> /\ pipeResult = "ok") =>
        /\ deployResult[1].success
        /\ deployResult[1].completed_stages = CompletedIn(progressLog)

\* C7 (as claimed): a worker whose pipeline failed at the config stage
\* reports failure with an error and completed_stages [connection, node,
\* openclaw]; no daemon command is run, no daemon or complete event sent.
C7_ConfigFailureResult ==
    (deployResult # <<>> /\ failedStage = "config") =>
        /\ ~deployResult[1].success
        /\ deployResult[1].error # None
        /\ deployResult[1].completed_stages = <<"connection", "node", "openclaw">>
        /\ \A i \in 1..Len(cmdLog) :
              cmdLog[i].cmd \notin {"install_daemon", "start_daemon"}
        /\ \A i \in 1..Len(progressLog) :
              progressLog[i].stage \notin {"daemon", "complete"}


(***************************************************************************)
(* Properties of deploy_to_servers                                         *)
(***************************************************************************)
\* the tasks whose pipeline has been spawned and has not returned
RunningTasks == {t \in 1..Len(task) : task[t] \in {"spawned", "running"}}

\* the registry entries the request names
Matching == {i \in 1..Len(registry) : registry[i].id \in requested}

\* C1: at no time are more than 5 pipelines in flight, whatever ids are
\* requested and whatever the registry holds.
C1_AtMostFiveRunning == Cardinality(RunningTasks) <= 5

\* five pipelines in flight for a request that names more than five servers
C1_Witness == Cardinality(RunningTasks) = 5 /\ Cardinality(Matching) > 5

\* a returned batch has exactly one result per selected target, each with
\* the success of that target's own pipeline, and every pipeline has run
BatchComplete ==
    /\ Len(results) = Len(targets)
    /\ \A t \in 1..Len(targets) :
          /\ outcome[t] # None
          /\ targets[t].host = "invalid" => outcome[t] # "ok"
          /\ Cardinality({i \in 1..Len(results) :
                             results[i].server_id = targets[t].id}) = 1
          /\ \A i \in 1..Len(results) :
                results[i].server_id = targets[t].id =>
                   /\ results[i].success = (outcome[t] = "ok")
                   /\ (results[i].error = None) = (outcome[t] = "ok")

\* C2 (as claimed): the returned batch is complete whatever pipelines
\* failed, and the aggregate stream has carried an event of every target.
C2_BatchAndStreamComplete ==
    dpPc = "returned" =>
        /\ BatchComplete
        /\ \A t \in 1..Len(targets) : relayed[t] >= 1

\* C2 (amended): the returned batch is complete whatever pipelines failed,
\* and the aggregate stream has carried an event of every target provided
\* the consumer has kept its receiving end.
C2_BatchCompleteStreamIfOpen ==
    dpPc = "returned" =>
        /\ BatchComplete
        /\ sinkOpen => \A t \in 1..Len(targets) : relayed[t] >= 1

\* three servers deployed, the one with the invalid host failed, the other
\* two succeeded, and the consumer is still connected
C2_Witness ==
    /\ dpPc = "returned"
    /\ Len(targets) = 3
    /\ sinkOpen
    /\ Cardinality({i \in 1..Len(results) : ~results[i].success}) = 1
    /\ \E t \in 1..3 : targets[t].host = "invalid"

(***************************************************************************)
(* Properties of the rollback saga                                         *)
(***************************************************************************)
\* the stages rollback_server has handed to exec_remote, in order
AttemptedStages == [i \in 1..Len(rbAttempts) |-> rbAttempts[i].stage]

\* the stages whose exec_remote errored
ErroredStages == {rbAttempts[i].stage : i \in {j \in 1..Len(rbAttempts) :
                                                  rbAttempts[j].result = "err"}}

RollbackStatuses == {"pending", "success", "skipped", "failed"}

\* C8: a rollback that has found its server (rollback_server) or has been
\* called (rollback_local) goes through stop_daemon, remove_config and
\* uninstall_openclaw once each, in that order, whatever stages failed; the
\* local result lists these three stages in this order, each with a status
\* in {pending, success, skipped, failed}.
C8_ThreeStagesInOrder ==
    /\ IsPrefix(AttemptedStages, RollbackStages)
    /\ rbPc \in {"reload", "save", "done"} => AttemptedStages = RollbackStages
    /\ IsPrefix(localAttempts, RollbackStages)
    /\ localPc \in {"finish", "done"} => localAttempts = RollbackStages
    /\ localResult # <<>> =>
          /\ [i \in 1..Len(localResult[1].stages) |-> localResult[1].stages[i].name]
                = RollbackStages
          /\ \A i \in 1..3 : localResult[1].stages[i].status \in RollbackStatuses

\* a remote rollback whose first stage errored and whose last stage ran
C8_Witness ==
    /\ rbPc = "done"
    /\ rbAttempts[1].result = "err"
    /\ rbAttempts[3].result = "ok"

\* C9: the success flag of a rollback is true exactly when no stage failed:
\* rollback_local returns success = no stage has status failed, with error
\* set exactly when success is false and naming every failed stage;
\* rollback_server returns success = false exactly when the exec_remote of
\* at least one of its stages errored.
C9_SuccessIffNoStageFailed ==
    /\ rbResult # <<>> =>
          /\ rbResult[1].success = (ErroredStages = {})
          /\ (rbResult[1].error = None) = rbResult[1].success
    /\ localResult # <<>> =>
          LET r == localResult[1]
              failed == {i \in 1..3 : r.stages[i].status = "failed"}
          IN /\ r.success = (failed = {})
             /\ (r.error = <<>>) = r.success
             /\ ~r.success =>
                   /\ Range(r.error[1]) = {r.stages[i].name : i \in failed}
                   /\ Len(r.error[1]) = Cardinality(failed)

\* a local rollback of which one stage failed and the others did not
C9_Witness ==
    /\ localResult # <<>>
    /\ localResult[1].stages[1].status = "success"
    /\ localResult[1].stages[2].status = "failed"
    /\ localResult[1].stages[3].status = "skipped"

\* C10: once rollback_server has run for an id that was in the registry,
\* the registry it leaves is the one it found with the status of that
\* server set to pending, whatever stages failed: no other field and no
\* other entry differs.
C10_OnlyStatusSetToPending ==
    (rbPc = "done" /\ rbServer # <<>>) =>
        rbAll = SetStatus(rbPrior[1].file, rbId, "pending")

\* the same, for the rollbacks between whose reload and save no other
\* request wrote the registry
RollbackFrameWhenUndisturbed ==
    (rbPc = "done" /\ rbServer # <<>> /\ rbPrior[1].loaded = rbPrior[1].file) =>
        rbAll = SetStatus(rbPrior[1].file, rbId, "pending")

\* C11: rollback_server called with an id no entry of the registry has
\* returns the not-found error: no remote command is executed, nothing is
\* written to the registry file and no result is produced.
C11_UnknownIdNoEffect ==
    (rbFirst # <<>> /\ \A i \in 1..Len(rbFirst[1]) : rbFirst[1][i].id # rbId) =>
        /\ rbPc = "notfound"
        /\ rbAttempts = <<>>
        /\ rbPrior = <<>>
        /\ rbResult = <<>>
        /\ registry = rbFirst[1]

\* a rollback refused for an id that a registry with entries does not hold
C11_Witness == rbPc = "notfound" /\ registry # <<>>

\* the last rollback_local call has returned, and the call before it
\* reported success
RolledBackTwice == localPrev # <<>> /\ localPrev[1].success /\ localResult # <<>>

\* C12: a rollback run on a target that an earlier rollback has already
\* rolled back returns three stages that are each skipped or success, and
\* success = true.
C12_SecondRunClean ==
    RolledBackTwice =>
        /\ \A i \in 1..3 : localResult[1].stages[i].status \in {"skipped", "success"}
        /\ localResult[1].success

\* the same on a machine where no other node process has "openclaw" or
\* "gateway" in its command line
SecondRunCleanWithoutLookalike ==
    (RolledBackTwice /\ ~machine.lookalike) =>
        /\ \A i \in 1..3 : localResult[1].stages[i].status \in {"skipped", "success"}
        /\ localResult[1].success

(***************************************************************************)
(* Properties of the registry update of deploy_to_servers                  *)
(***************************************************************************)
\* the place in the registry of the t-th selected target
TargetIndex(t) == CHOOSE i \in Matching : Cardinality({j \in Matching : j <= i}) = t

\* the registry places of the selected targets
TargetIndices == {TargetIndex(t) : t \in 1..Len(targets)}

\* the status the claim gives a server whose pipeline returned res
StatusOf(res) == IF res = "ok" THEN "deployed" ELSE "failed"

\* the registry after the step is the one before it with the status of
\* every selected target set from its own result, nothing else changed
StatusesFromResults ==
    /\ Len(registry') = Len(registry)
    /\ \A t \in 1..Len(targets) :
          registry'[TargetIndex(t)] =
             [registry[TargetIndex(t)] EXCEPT !.status = StatusOf(outcome[t])]
    /\ \A i \in (1..Len(registry)) \ TargetIndices : registry'[i] = registry[i]

\* C13: a deploy that has spawned its workers writes the registry exactly
\* once, after every worker has finished, and what it writes is the registry
\* it reloaded with the status of every server that has a result set to
\* deployed or failed after that result, every other server as reloaded.
C13_OneWriteWithStatuses ==
    [][/\ (registry' # registry \/ saves' # saves) =>
             /\ dpPc = "join"
             /\ \A t \in 1..Len(targets) : task[t] = "joined"
       /\ (dpPc = "join" /\ dpPc' = "returned") =>
             /\ saves' = 1
             /\ StatusesFromResults]_vars

\* whenever the deploy writes the registry, it writes it after every worker
\* has finished and with the statuses of the results
WrittenStatusesFromResults ==
    [][saves' # saves =>
          /\ saves' = 1
          /\ \A t \in 1..Len(targets) : task[t] = "joined"
          /\ StatusesFromResults]_vars

\* C20: when the load_servers call at the start of deploy_to_servers
\* returns an error, the deploy has returned an empty batch with no target
\* selected, no worker spawned, no event relayed, no reload and no write:
\* the registry file is the one the deploy found.
C20_UnreadableRegistryAborts ==
    (fileLog # <<>> /\ fileLog[1] = "err") =>
        /\ dpPc = "returned"
        /\ targets = <<>>
        /\ task = <<>>
        /\ relayed = <<>>
        /\ backlog = 0
        /\ results = <<>>
        /\ fileLog = <<"err">>
        /\ saves = 0
        /\ registry = FleetRegistry(Len(registry))

\* a deploy aborted on an unreadable registry although its request names
\* registered servers
C20_Witness == dpPc = "returned" /\ fileLog = <<"err">> /\ Matching # {}

(***************************************************************************)
(* Properties of the aggregate stream                                      *)
(***************************************************************************)
\* the events on the aggregate stream that carry the id of worker w's
\* server, in stream order
StreamOf(w) ==
    SelectSeqBy(stAgg, {e \in Range(stAgg) : e.server_id = StreamTargets[w].id})

\* C14: on the aggregate stream the events of one server are, in order and
\* one for one, events its pipeline emitted, from the first on, each with
\* that server's server_id and server_name and with stage, status, message,
\* error and timestamp as emitted; every event of the stream is one of
\* these.
C14_PerServerOrderKept ==
    /\ \A w \in StreamWorkers :
          /\ Len(StreamOf(w)) <= Len(stSent[w])
          /\ \A i \in 1..Len(StreamOf(w)) :
                LET e == StreamOf(w)[i]
                    sent == stSent[w][i]
                IN /\ e.server_id = StreamTargets[w].id
                   /\ e.server_name = StreamTargets[w].name
                   /\ e.stage = sent.stage
                   /\ e.status = sent.status
                   /\ e.message = sent.message
                   /\ e.error = sent.error
                   /\ e.timestamp = sent.timestamp
    /\ \A i \in 1..Len(stAgg) :
          \E w \in StreamWorkers : stAgg[i].server_id = StreamTargets[w].id

\* two events of one server on the stream with an event of the other
\* between them, the two differing in every field the pipeline set
C14_Witness ==
    /\ Len(stAgg) >= 3
    /\ stAgg[1].server_id = 1
    /\ stAgg[2].server_id = 2
    /\ stAgg[3].server_id = 1
    /\ stAgg[1].stage # stAgg[3].stage
    /\ stAgg[1].error # stAgg[3].error

(***************************************************************************)
(* Properties of a deploy whose consumer disconnects                       *)
(***************************************************************************)
\* the commands of a run in which every stage succeeded, without the
\* optional node installation
FullRun ==
    <<"check_connection", "node_version", "npm_install", "write_config",
      "install_daemon", "start_daemon">>

\* the commands the run has handed to the Session Gateway, in order,
\* without the optional node installation
CommandsRun ==
    LET cmds == [i \in 1..Len(cmdLog) |-> cmdLog[i].cmd]
    IN SelectSeqBy(cmds, Range(cmds) \ {"nvm_install"})

\* the pipeline has returned as one that nobody cancelled does: Ok after
\* all seven stages and all their commands, or the error of its last call
ReturnedNormally ==
    \/ /\ pipeResult = "ok"
       /\ started = ClaimedOrder
       /\ CommandsRun = FullRun
       /\ \A i \in 1..Len(cmdLog) : ~FailingResult(cmdLog[i])
    \/ /\ pipeResult \notin {None, "ok"}
       /\ cmdLog # <<>>
       /\ cmdLog[Len(cmdLog)].result # "ok"
       /\ cmdLog[Len(cmdLog)].result # "true"

\* what holds in every state of a worker whose consumer may disconnect
DisconnectSafe ==
    /\ ~sinkOpen => aggChan = <<>>
    /\ fwdPc = "stopped" => ~sinkOpen /\ ~psRxOpen
    /\ pipePc = Returned => ReturnedNormally
    /\ deployResult # <<>> =>
          /\ pipePc = Returned
          /\ deployResult[1].success = (pipeResult = "ok")
          /\ deployResult[1].error = (IF pipeResult = "ok" THEN None ELSE pipeResult)

DisconnectedDeployCompletes ==
    (dpPc = "returned" /\ ~sinkOpen) =>
        /\ BatchComplete
        /\ fileLog = <<"ok", "ok", "ok">> =>
              /\ saves = 1
              /\ registry = ApplyResults(FleetRegistry(Len(registry)), results)

\* C16: once a worker has produced its result, its forwarding task has
\* terminated, holding nothing, and from then on no event enters the
\* aggregate channel; deploy_to_servers returns only after every worker
\* has produced its result.
C16_ForwardersJoinedBeforeResult ==
    /\ [](deployResult # <<>> =>
             /\ fwdPc \in {"done", "stopped"}
             /\ fwdHold = <<>>
             /\ psChan = <<>>)
    /\ [][deployResult # <<>> => Len(aggChan') <= Len(aggChan)]_vars

\* a result produced while events relayed by the joined forwarding task are
\* still waiting in the aggregate channel
C16_Witness ==
    /\ deployResult # <<>>
    /\ fwdPc = "done"
    /\ sinkOpen
    /\ Len(aggChan) >= 2

\* deploy_to_servers has returned: every task has been joined and the
\* number of events waiting in the aggregate channel no longer grows
ReturnedDeployIsQuiet ==
    /\ [](dpPc = "returned" => \A t \in 1..Len(targets) : task[t] = "joined")
    /\ [][dpPc = "returned" => backlog' <= backlog]_vars

(***************************************************************************)
(* Properties of the Session Gateway                                       *)
(***************************************************************************)
\* the hosts the specification admits: one or more letters, digits, dots
\* and hyphens
AdmittedHost(host) ==
    /\ host # <<>>
    /\ \A i \in 1..Len(host) :
          \/ host[i] \in LowerChars \cup UpperChars
          \/ IsDigit(host[i])
          \/ host[i] \in {".", "-"}

\* the users the specification admits: a lower-case letter or underscore,
\* then lower-case letters, digits, underscores and hyphens
AdmittedUser(user) ==
    /\ user # <<>>
    /\ user[1] \in LowerChars \cup {"_"}
    /\ \A i \in 2..Len(user) :
          \/ user[i] \in LowerChars
          \/ IsDigit(user[i])
          \/ user[i] \in {"_", "-"}

\* C17: check_connection, exec_remote and stream_remote_command hand a
\* connection string to Session::connect only for an admitted host and an
\* admitted user; a call with any other pair, a host that is empty or has a
\* blank or an "@" in it among them, has returned a validation error
\* without a connection attempt.
C17_ValidatedBeforeConnect ==
    /\ \A i \in 1..Len(gwSessions) :
          AdmittedHost(gwSessions[i].host) /\ AdmittedUser(gwSessions[i].user)
    /\ (gwPc \notin {"off", "idle"} /\ ~(AdmittedHost(gwHost) /\ AdmittedUser(gwUser))) =>
          /\ gwPc = "done"
          /\ gwResult = <<"validation_error">>
          /\ gwSessions = <<>>

\* stream_remote_command refused for a host with an "@" in it
C17_Witness ==
    /\ gwPc = "done"
    /\ gwOp = "stream_remote_command"
    /\ gwCommand
    /\ gwHost = <<"a", "@">>
    /\ gwUser = <<"a">>
    /\ gwResult = <<"validation_error">>
    /\ gwSessions = <<>>

\* C18: check_connection returns false when the connection failed because
\* the credential was rejected and an error when it failed for the host's
\* identity or the network; test_server sets failed in both cases.
C18_RejectedCredentialIsFalse ==
    (ChecksConnection(gwOp) /\ gwPc = "done" /\ gwFailure # <<>>) =>
        /\ gwResult[1] = (IF gwFailure[1] = "authentication" THEN "false" ELSE "err")
        /\ gwOp = "test_server" => TestStatus(gwResult[1]) = "failed"

\* the half of it that does not depend on the error text: a failure of the
\* host's identity or of the network is an error, a connection made is
\* true, and test_server sets failed for false and for an error, connected
\* for true
ConnectErrorsAndStatuses ==
    (ChecksConnection(gwOp) /\ gwPc = "done" /\ gwSessions # <<>>) =>
        /\ gwFailure = <<>> => gwResult = <<"true">>
        /\ (gwFailure # <<>> /\ gwFailure[1] # "authentication") => gwResult = <<"err">>
        /\ gwFailure # <<>> => gwResult[1] \in {"false", "err"}
        /\ gwOp = "test_server" =>
              TestStatus(gwResult[1]) = (IF gwFailure = <<>> THEN "connected" ELSE "failed")

\* the connection stage: false from check_connection is the
\* authentication-failed error, an error is the connection error; either
\* way one failed event, of stage connection, and no later stage
ConnectionStageMapsResult ==
    \A i \in 1..Len(cmdLog) :
       (cmdLog[i].cmd = "check_connection" /\ cmdLog[i].result # "true") =>
          /\ pipePc = Returned
          /\ pipeResult = (IF cmdLog[i].result = "false" THEN "AuthenticationFailed"
                           ELSE "ConnectionFailed")
          /\ started = <<"connection">>
          /\ Len(cmdLog) = 1
          /\ Cardinality(FailedEvents) = 1
          /\ \A j \in FailedEvents : progressLog[j].stage = "connection"

(***************************************************************************)
(* Properties of the websocket progress streams                            *)
(***************************************************************************)
\* the envelope type a stream is started with
ExpectedType(stream) ==
    IF stream = "remote" THEN "start-remote-install" ELSE "start-multi-server-deploy"

\* a well-formed initial request envelope of the stream's type
WellFormedFirst ==
    /\ wsFirst.kind = "text"
    /\ wsFirst.json = "envelope"
    /\ wsFirst.msg_type = ExpectedType(wsStream)
    /\ wsFirst.payload = RequestOf(wsStream)

\* C19: on either stream a pipeline is started and events other than an
\* error event are written only after a well-formed initial request
\* envelope of the stream's type; any other initial message (a close frame
\* and a vanished client are no message) gets exactly one event, of stage
\* error, and the stream closes with no pipeline started.
C19_NothingBeforeRequestEnvelope ==
    /\ ~WellFormedFirst =>
          /\ ~wsStarted
          /\ \A i \in 1..Len(wsOut) : wsOut[i] = "error"
    /\ (~WellFormedFirst /\ wsFirst.kind \in {"text", "binary"} /\ wsPc \notin {"off", "wait"}) =>
          /\ wsPc = "closed"
          /\ wsOut = <<"error">>

\* the same for the remote install stream and first messages that are text
RemoteTextFirstChecked ==
    (wsStream = "remote" /\ wsFirst.kind = "text") => C19_NothingBeforeRequestEnvelope

(***************************************************************************)
(* Properties of the selection of deploy_to_servers                        *)
(***************************************************************************)
\* the registry the deploy found
FoundRegistry == FleetRegistry(Len(registry))

\* the registry places the request names, in registry order
MatchingInOrder == SelectSeqBy([i \in 1..Len(registry) |-> i], Matching)

\* C21: a deploy that has read the registry has selected exactly the first
\* five matching entries, in registry order (all of them when there are at
\* most five); an entry beyond the cap, and a requested id that is not
\* registered, has no task, no relayed event and no result, at any time of
\* the call, and the final write leaves its entry as it was.
C21_BeyondCapDropped ==
    (dpPc \in {"join", "returned"} /\ fileLog[1] = "ok") =>
        LET found == FoundRegistry
            order == MatchingInOrder
            kept == IF Len(order) > 5 THEN 5 ELSE Len(order)
        IN /\ Len(targets) = kept
           /\ \A t \in 1..kept : targets[t] = found[order[t]]
           /\ DOMAIN task = 1..kept
           /\ DOMAIN relayed = 1..kept
           /\ \A i \in 1..Len(results) :
                 \E t \in 1..kept : results[i].server_id = targets[t].id
           /\ Len(registry) = Len(found)
           /\ \A i \in 1..Len(registry) :
                 (\A t \in 1..kept : order[t] # i) => registry[i] = found[i]

\* a deploy has returned and written the registry for a request naming six
\* registered servers and an id that is not registered
C21_Witness ==
    /\ dpPc = "returned"
    /\ saves = 1
    /\ Cardinality(Matching) = 6
    /\ \E id \in requested : \A i \in 1..Len(registry) : registry[i].id # id
    /\ \E t \in 1..Len(targets) : registry[TargetIndex(t)].status = "deployed"

(***************************************************************************)
(* Properties of the atomic replace of the registry file                   *)
(***************************************************************************)
\* a content some call was given, or the one the file had before
WholeContent(content) == content = OldContent \/ \E s \in Savers : content = NewContent(s)

\* servers.json is a complete content, and is there if it was there before
RegistryFileWhole ==
    /\ dirJson # 0 => WholeContent(inodes[dirJson])
    /\ inodes # <<>> /\ inodes[1] = OldContent => dirJson # 0

\* C22: at every point of a save, a crash or an error at any step included,
\* servers.json holds the complete previous content or a complete new
\* content, never a part of one, and once a save has returned Ok and no
\* other save is under way no file is named servers.tmp.
C22_SaveIsAtomic ==
    /\ RegistryFileWhole
    /\ (/\ \E s \in Savers : svPc[s] = "done"
        /\ \A s \in Savers : svPc[s] \in {"done", "off"}) => dirTmp = 0

\* the same when one call saves and no other call runs beside it
SingleSaveIsAtomic ==
    (\E s \in Savers : svPc[s] = "off") => C22_SaveIsAtomic

(***************************************************************************)
(* Properties of the registry operations                                   *)
(***************************************************************************)
\* the places of the history where an add_server returned Ok
AddsDone == {i \in 1..Len(apiLog) : apiLog[i].op = "add" /\ apiLog[i].result = "ok"}

\* C23: whatever add_server, remove_server, test_server, deploy_to_servers
\* and rollback_server calls have run, with ids generated or supplied by the
\* caller, no two entries of the persisted list have the same id.
C23_IdsUnique ==
    \A i, j \in 1..Len(registry) : i # j => registry[i].id # registry[j].id

\* two entries with one id are there only after two add_server calls with
\* that id
SameIdOnlyFromTwoAdds ==
    \A i, j \in 1..Len(registry) :
        (i # j /\ registry[i].id = registry[j].id) =>
            \E a, b \in AddsDone :
                a # b /\ apiLog[a].id = registry[i].id /\ apiLog[b].id = registry[i].id

\* C24: an id add_server generates differs from the id of every server
\* added to the registry before, still there or removed since: no two
\* generated ids are equal.
C24_GeneratedIdsFresh ==
    \A j \in AddsDone :
        apiLog[j].generated =>
            \A i \in AddsDone : i < j => apiLog[i].id # apiLog[j].id

\* ids generated in different milliseconds differ
GeneratedIdsDifferAcrossMillis ==
    \A t1, t2 \in Millis : t1 # t2 => GenerateServerId(t1) # GenerateServerId(t2)

\* the entries of a list whose id is not the given one, in order
Others(servers, id) == SelectSeqBy(servers, {e \in Range(servers) : e.id # id})

ClaimedStatuses == {"pending", "connected", "failed", "deployed"}

\* C26: in every state of the registry every entry's status is pending,
\* connected, failed or deployed.
C26_StatusesKnown ==
    \A i \in 1..Len(registry) : registry[i].status \in ClaimedStatuses

\* what each operation stores: add_server pending for an empty status and
\* the given status otherwise, test_server connected or failed,
\* deploy_to_servers deployed or failed, rollback_server pending; every other
\* status written is one the operation loaded
StatusesStoredPerOperation ==
    [][\A c \in Callers :
         (apiPc[c] = "save" /\ apiPc'[c] = "idle" /\ registry' # registry) =>
            LET call == apiCall[c]
                stored == IF call.op = "add"
                          THEN {IF b.status = "" THEN "pending" ELSE b.status :
                                   b \in {b \in AddBodies : call.generated = (b.id = 0)}}
                          ELSE IF call.op = "test" THEN {"connected", "failed"}
                          ELSE IF call.op = "deploy" THEN {"deployed", "failed"}
                          ELSE IF call.op = "rollback" THEN {"pending"}
                          ELSE {}
            IN \A i \in 1..Len(registry') :
                  \/ registry'[i].status \in stored
                  \/ \E j \in 1..Len(apiLoaded[c]) : registry'[i] = apiLoaded[c][j]]_vars

SavedTextLoadsBack ==
    [][cdLast' = "save_loaded" =>
          /\ cdFile' # <<>>
          /\ Parse(cdFile'[1]) = cdList]_vars

(***************************************************************************)
(* Properties of concurrent registry access                                *)
(***************************************************************************)
\* the ids of a list, in order
IdsOf(servers) == [i \in 1..Len(servers) |-> servers[i].id]

\* C28: the final write of deploy_to_servers replaces the whole file with
\* the list the deploy reloaded, statuses apart: the file then has the
\* entries of that reload, whatever add_server and remove_server calls have
\* completed since. (That such a call does complete in between, and is lost,
\* is the witness.)
C28_DeployWriteIsLastWriter ==
    [][\A c \in Callers :
         (/\ apiCall[c].op = "deploy"
          /\ apiPc[c] = "save" /\ apiPc'[c] = "idle"
          /\ apiLog' # apiLog) =>
             /\ IdsOf(registry') = IdsOf(apiLoaded[c])
             /\ \A i \in 1..Len(registry') : registry'[i].host = apiLoaded[c][i].host]_vars

\* a deploy with a target has reloaded the registry, an add_server call has
\* then returned Ok, and after the deploy's write the added server is not in
\* the registry
C28_Witness ==
    /\ Len(apiLog) >= 3
    /\ LET n == Len(apiLog)
       IN /\ apiLog[n].op = "deploy" /\ apiLog[n].result = "ok"
          /\ apiLog[n - 1].op = "add" /\ apiLog[n - 1].result = "ok"
          /\ apiLog[n - 2].op = "deploy" /\ apiLog[n - 2].result = "reload"
          /\ \A i \in 1..Len(registry) : registry[i].id # apiLog[n - 1].id
          /\ \E i \in 1..Len(registry) : registry[i].status \in {"deployed", "failed"}

\* the same for a remove_server call: the removed server is back
RemoveLostUnderDeploy ==
    /\ Len(apiLog) >= 3
    /\ LET n == Len(apiLog)
       IN /\ apiLog[n].op = "deploy" /\ apiLog[n].result = "ok"
          /\ apiLog[n - 1].op = "remove" /\ apiLog[n - 1].result = "ok"
          /\ apiLog[n - 2].op = "deploy" /\ apiLog[n - 2].result = "reload"
          /\ \E i \in 1..Len(registry) : registry[i].id = apiLog[n - 1].id

(***************************************************************************)
(* Properties of the node stage (stage_ensure_node)                        *)
(***************************************************************************)
\* the completed events of the node stage sent so far
NodeCompleted == {i \in 1..Len(progressLog) : progressLog[i] = Ev("node", "completed")}

\* stage_ensure_node has returned Ok
NodeStageOk ==
    /\ "node" \in Range(started)
    /\ pipePc.stage # "node"
    /\ failedStage # "node"

\* the majors of the outputs the probe may print, as the unit tests of
\* parse_node_major give them (-1 for None)
ExpectedMajors ==
    /\ ParseNodeMajor(<<"v", "2", "2", ".", "1">>) = 22
    /\ ParseNodeMajor(<<"v", "1", "8", ".", "0">>) = 18
    /\ ParseNodeMajor(<<"2", "3">>) = 23
    /\ ParseNodeMajor(<<" ", "v", "2", "2", " ">>) = 22
    /\ ParseNodeMajor(<<"n", "o">>) = -1
    /\ ParseNodeMajor(<<>>) = -1

\* the runtime is missing by what the probe returned: the probe is absent
\* (an error or a non-zero exit), its output has no parsable major version,
\* or the major is below 22
RuntimeMissing(check) ==
    LET major == ParseNodeMajor(check.stdout)
    IN  check.result # "ok" \/ major = -1 \/ major < 22

\* C29: once the version probe of the node stage has returned, the runtime
\* bootstrap install is started if and only if the probe is absent (it
\* returned an error or exited non-zero), its output has no parsable major
\* version, or the major is below 22; with a major of at least 22 the stage
\* sends a completed event and returns without running the install; the
\* install is started nowhere else; and whenever the stage has returned Ok,
\* with or without the install, it has sent exactly one completed event.
C29_InstallIffRuntimeMissing ==
    [][/\ ExpectedMajors
       /\ (pipePc = At("probed", "node") /\ pipePc' # pipePc) =>
              /\ pipePc' = At("install", "node") <=> RuntimeMissing(node_check[1])
              /\ ~RuntimeMissing(node_check[1]) =>
                     /\ progressLog' = Append(progressLog, Ev("node", "completed"))
                     /\ cmdLog' = cmdLog
                     /\ NodeStageOk'
       /\ (pipePc' = At("install", "node") /\ pipePc' # pipePc) =>
              pipePc = At("probed", "node")
       /\ (\E i \in 1..Len(cmdLog') : cmdLog'[i].cmd = "nvm_install") =>
              \/ pipePc = At("install", "node")
              \/ \E i \in 1..Len(cmdLog) : cmdLog[i].cmd = "nvm_install"
       /\ NodeStageOk' => Cardinality(NodeCompleted') = 1
       /\ ~NodeStageOk' => NodeCompleted' = {}]_vars

\* the probe has exited 0, the bootstrap has then been streamed and exited
\* 0, and the pipeline has returned Ok
C29_Witness ==
    /\ Len(cmdLog) >= 3
    /\ cmdLog[2] = Call("node_version", "ok")
    /\ cmdLog[3] = Call("nvm_install", "ok")
    /\ pipeResult = "ok"
    /\ Cardinality(NodeCompleted) = 1

\* the probe has printed a version of major 22 and the stage is about to
\* return Ok without the bootstrap
RuntimePresentSkipsInstall ==
    /\ pipePc = At("probed", "node")
    /\ node_check = <<NodeCheck("ok", <<" ", "v", "2", "2", " ">>)>>

(***************************************************************************)
(* Properties of stream_remote_command                                     *)
(***************************************************************************)
\* C30: each stdout line is forwarded on the line channel as it is
\* produced: a line the remote command has written reaches a caller that
\* keeps receiving, whether or not the command has finished; stderr lines
\* are forwarded with the STDERR label; and what the call returns holds the
\* complete stdout, stderr and exit code, with every forwarded line.
C30_LinesForwardedAsProduced ==
    /\ \A n \in 1..MaxWrites :
          (Len(scStdout) >= n) ~> (~scRxOpen \/ scPc = "failed" \/ Len(scLines) >= n)
    /\ [](scResult # <<>> =>
            /\ scResult[1].stdout = scStdout
            /\ scResult[1].stderr = scStderr
            /\ scResult[1].exit_code = ExitCode(scExit[1])
            /\ IsPrefix(scLines \o scChan, Pending(scOutput[1])))

\* what the code does instead: nothing is sent on the line channel before
\* the remote command has ended
NothingForwardedBeforeExit == scLines \o scChan # <<>> => scExit # <<>>

\* once the command has ended, every line reaches a caller that keeps
\* receiving, and the call returns
ForwardedAfterExit ==
    (scExit # <<>>) ~>
        (~scRxOpen \/ scPc = "failed" \/
            (/\ scOutput # <<>>
             /\ scLines = Pending(scOutput[1])
             /\ scResult = <<CommandOutput(scOutput[1])>>))

\* the command has written a stdout line and has not ended, the caller is
\* receiving, and no line has been sent
LineWrittenNotForwarded ==
    /\ scPc = "output" /\ scExit = <<>> /\ scRxOpen
    /\ scStdout # <<>>
    /\ scLines \o scChan = <<>>

\* the caller has received a stdout line and a labelled stderr line that
\* are the same text
StdoutLineTakenForStderr ==
    /\ scOutput # <<>>
    /\ \E i \in 1..Len(scLines), j \in 1..Len(scLines) :
        /\ i <= Len(scOutput[1].stdout)
        /\ j > Len(scOutput[1].stdout)
        /\ scLines[i] = scLines[j]

(***************************************************************************)
(* Properties of the events of a successful pipeline run                   *)
(***************************************************************************)
\* the positions of the events of a stage with a status
EventsOf(stage, status) ==
    {i \in 1..Len(progressLog) : progressLog[i] = Ev(stage, status)}

ReportedStages == {"connection", "node", "openclaw", "config", "daemon"}

\* C31: when install_openclaw_remote has returned Ok, each of the stages
\* connection, node, openclaw, config and daemon has sent exactly one
\* completed event, after at least one in_progress event of the same stage;
\* exactly one completed event of stage complete has been sent and it is the
\* last event; and a complete event has been sent if and only if the
\* pipeline has returned Ok.
C31_OneCompletedPerStage ==
    /\ pipeResult = "ok" =>
          /\ \A stage \in ReportedStages :
                /\ Cardinality(EventsOf(stage, "completed")) = 1
                /\ \A i \in EventsOf(stage, "completed") :
                      \E j \in EventsOf(stage, "in_progress") : j < i
          /\ EventsOf("complete", "completed") = {Len(progressLog)}
    /\ pipeResult = "ok" <=> EventsOf("complete", "completed") # {}

\* the pipeline has returned Ok after installing the runtime, and the
\* package install has streamed a line
C31_Witness ==
    /\ pipeResult = "ok"
    /\ Call("nvm_install", "ok") \in Range(cmdLog)
    /\ Cardinality(EventsOf("openclaw", "in_progress")) >= 2
    /\ Cardinality(EventsOf("daemon", "in_progress")) = 3

(***************************************************************************)
(* Properties of enforce_vt_rate_limit                                     *)
(***************************************************************************)
\* the positions in vtLog of the returns
VtReturns == {i \in 1..Len(vtLog) : vtLog[i].kind = "return"}

\* the position in vtLog where the call that returned at position i entered
VtEntered(i) ==
    CHOOSE k \in 1..Len(vtLog) : vtLog[k].kind = "enter" /\ vtLog[k].caller = vtLog[i].caller

\* C32: any two returns from enforce_vt_rate_limit, each timed by the
\* stamp it stored, are at least 15 seconds apart, however the calls overlap.
C32_ReturnsSpaced ==
    \A i, j \in VtReturns :
        i < j => vtLog[j].at - vtLog[i].at >= 15000

\* what the code keeps: a call that is entered after another has returned
\* returns at least 15 seconds after it
SequentialReturnsSpaced ==
    \A i, j \in VtReturns :
        i < VtEntered(j) => vtLog[j].at - vtLog[i].at >= 15000

\* two calls that were in the function together have returned at the same
\* time
OverlappingCallsReturnTogether ==
    \E i, j \in VtReturns :
        /\ i < j
        /\ VtEntered(j) < i
        /\ vtLog[j].at = vtLog[i].at

\* a call has waited for the rest of the interval
WaitedThenStamped ==
    \E i, j \in VtReturns : i < VtEntered(j) /\ vtLog[j].at > vtLog[VtEntered(j)].at

(***************************************************************************)
(* Properties of the analysis rate limiter                                 *)
(***************************************************************************)
\* the positions in anLog of the calls that passed the check
Admitted == {i \in 1..Len(anLog) : anLog[i].kind = "admitted"}

\* two calls have been in the check together
Overlapped ==
    \E k \in 1..(Len(anLog) - 1) : anLog[k].kind = "enter" /\ anLog[k + 1].kind = "enter"

\* C33: of any two analyze_error calls that start less than 10 seconds
\* apart at most one passes the rate-limit check, also when the two run
\* side by side; and no call panics while computing the remaining wait.
C33_OneAdmittedPerWindow ==
    /\ \A i, j \in Admitted :
          i < j => anLog[j].now - anLog[i].now >= 10
    /\ \A i \in 1..Len(anLog) : anLog[i].kind # "panic"

\* what the code keeps: while no two calls have been in the check together,
\* the admitted calls start 10 seconds apart or more
SequentialAdmissionsSpaced ==
    ~Overlapped =>
        \A i, j \in Admitted : i < j => anLog[j].now - anLog[i].now >= RATE_LIMIT_SECONDS

\* two calls that started in the same second have both been admitted
BothAdmitted ==
    \E i, j \in Admitted : i < j /\ anLog[j].now = anLog[i].now

\* a call has read the clock before, and the static after, a call that
\* started later: the subtraction has overflowed
RemainingWaitOverflowed ==
    \E i \in 1..Len(anLog) :
        \/ anLog[i].kind = "panic"
        \/ anLog[i].kind = "rejected" /\ anLog[i].wait > RATE_LIMIT_SECONDS

\* a call within the window of an admitted call has been rejected
RejectedWithinWindow ==
    \E i \in Admitted, j \in 1..Len(anLog) :
        i < j /\ anLog[j].kind = "rejected" /\ anLog[j].wait \in 1..RATE_LIMIT_SECONDS

(***************************************************************************)
(* Properties of the end of the aggregate stream of a deploy               *)
(* (routes/multi_server.rs 177-208, multi_server.rs 132-190)               *)
(***************************************************************************)
\* the consumer's recv loop has returned None: deploy_to_servers, which owns
\* the aggregate sender, has returned, every forwarding task (each holds a
\* clone) has been joined, the channel is drained and the receiver is held
StreamEnded ==
    /\ dpPc = "returned"
    /\ \A t \in 1..Len(targets) : task[t] = "joined"
    /\ backlog = 0
    /\ sinkOpen

\* list_servers after the end of the stream shows the status of result k
ListedAfterResult(k) ==
    \E i \in 1..Len(registry) :
        /\ registry[i].id = results[k].server_id
        /\ registry[i].status = IF results[k].success THEN "deployed" ELSE "failed"

\* C34: when the consumer sees the aggregate stream end, the registry it
\* then lists shows deployed or failed, after its result, for every server
\* that produced a result.
C34_StatusesListedAtStreamEnd ==
    StreamEnded => \A k \in 1..Len(results) : ListedAfterResult(k)

\* the same for the runs whose reload and save both succeeded
StatusesListedWhenSaved ==
    (StreamEnded /\ saves = 1) => \A k \in 1..Len(results) : ListedAfterResult(k)

\* the registry is written only while the function still holds its sender
WrittenBeforeSenderDropped ==
    [][(registry' # registry \/ saves' # saves) => (dpPc = "join" /\ ~StreamEnded)]_vars

\* reachable: the stream has ended, a server has a result, and the registry
\* was never written
StreamEndedUnwritten ==
    StreamEnded /\ results # <<>> /\ saves = 0

\* reachable: the stream has ended after the one write
StreamEndedWritten ==
    StreamEnded /\ results # <<>> /\ saves = 1

(***************************************************************************)
(* Properties of test_server beside other registry calls                   *)
(* (multi_server.rs 84-126)                                                *)
(***************************************************************************)
\* caller c's test_server call writes the registry in this step
TestWrites(c) ==
    /\ apiCall[c].op = "test"
    /\ apiPc[c] = "save" /\ apiPc'[c] = "idle"
    /\ apiLog' # apiLog

\* C35: the write of test_server changes only the status of the tested
\* server: the file after it is the file as it was just before it, with
\* whatever other calls have written since the test's load, and the tested
\* server's status set.
C35_TestKeepsOtherMutations ==
    [][\A c \in Callers :
         TestWrites(c) =>
             \E status \in TestStatuses :
                 registry' = SetStatus(registry, apiCall[c].id, status)]_vars

\* what the write does: the file becomes the list the call loaded before
\* its connection check, with the tested server's status set
TestWritesLoadedList ==
    [][\A c \in Callers :
         TestWrites(c) =>
             \E status \in TestStatuses :
                 registry' = SetStatus(apiLoaded[c], apiCall[c].id, status)]_vars

\* with no write by another call since the load, the claim's statement holds
TestAloneKeepsOthers ==
    [][\A c \in Callers :
         (TestWrites(c) /\ registry = apiLoaded[c]) =>
             \E status \in TestStatuses :
                 registry' = SetStatus(registry, apiCall[c].id, status)]_vars

\* reachable: add_server returned Ok after the test's load, the test then
\* wrote, and the added server is not in the registry
AddLostUnderTest ==
    /\ Len(apiLog) >= 2
    /\ LET n == Len(apiLog)
       IN /\ apiLog[n].op = "test" /\ apiLog[n].result = "ok"
          /\ apiLog[n - 1].op = "add" /\ apiLog[n - 1].result = "ok"
          /\ \A i \in 1..Len(registry) : registry[i].id # apiLog[n - 1].id

(***************************************************************************)
(* Properties of termination under full channels (SpecPressureFair)        *)
(***************************************************************************)
\* nothing is left running: the pipeline has returned, the forwarding task
\* has ended, deploy_to_servers has returned and the consumer's loop is over
PressureOver ==
    /\ bpPipe = "returned"
    /\ bpFwd \in {"none", "done", "stopped"}
    /\ bpDeploy \in {"none", "returned"}
    /\ bpSink \in {"ended", "dropped"}

\* C36: with remote commands that return and a consumer that keeps
\* receiving or drops its receiver, no send waits forever on a full channel,
\* the forwarding task does not wait forever for an event or a closed
\* channel, deploy_to_servers returns, and the stream the consumer reads
\* ends once deploy_to_servers (single-server: the pipeline) has returned.
C36_DeployReturnsStreamsEnd == <>PressureOver

\* both channels of a deploy are full with the consumer still there: the
\* forwarding task and the pipeline are both waiting in a send
C36_Witness ==
    /\ bpMode = "multi"
    /\ bpPerServer = CHANNEL_CAPACITY
    /\ bpAgg = CHANNEL_CAPACITY
    /\ bpFwd = "send"
    /\ bpPipe = "sending"
    /\ bpSink = "open"

\* reachable: the pipeline of a single-server install waits on its full
\* channel
SingleChannelFull ==
    /\ bpMode = "single"
    /\ bpAgg = CHANNEL_CAPACITY
    /\ bpPipe = "sending"
    /\ bpSink = "open"

\* reachable: a deploy returned and its stream ended with the consumer
\* having read every event
DeployOverStreamEnded ==
    /\ bpMode = "multi"
    /\ bpDeploy = "returned"
    /\ bpFwd = "done"
    /\ bpSink = "ended"

\* the consumer's loop ends by None only when every sender is gone
StreamEndsOnlyWithoutSenders ==
    bpSink = "ended" => (AggSenders = 0 /\ bpAgg = 0)

\* the line stream of the node install: once the remote command has ended,
\* stream_remote_command returns, which drops the sender its caller's
\* receive loop waits on (SpecCommandFair)
LineStreamReturnsAfterExit ==
    (scExit # <<>>) ~> (scPc \in {"done", "failed"})

(***************************************************************************)
(* Properties of the batch of deploy_to_servers                            *)
(* (multi_server.rs 145-173)                                               *)
(***************************************************************************)
\* Vec::contains
ListContains(server_ids, id) == \E i \in 1..Len(server_ids) : server_ids[i] = id

\* the lists a request for the ids `requested` can be: each id once or more
RequestLists ==
    {list \in SeqsUpTo(requested, Cardinality(requested) + 1) : Range(list) = requested}

\* the results with the given server_id
ResultsFor(id) == {i \in 1..Len(results) : results[i].server_id = id}

\* the batch has one result for every pipeline started, and every result is
\* for a requested id that the registry holds
OneResultPerPipeline ==
    /\ Len(results) = Len(targets)
    /\ \A t \in 1..Len(targets) :
          Cardinality(ResultsFor(targets[t].id)) =
              Cardinality({u \in 1..Len(targets) : targets[u].id = targets[t].id})
    /\ \A i \in 1..Len(results) :
          /\ results[i].server_id \in requested
          /\ \E k \in 1..Len(registry) : registry[k].id = results[i].server_id

\* C37: the batch a deploy returns has at most one result for a requested
\* id, only results for requested ids that the registry holds, and one
\* result for every pipeline that was started.
C37_OneResultPerRequestedId ==
    dpPc = "returned" =>
        /\ \A id \in requested : Cardinality(ResultsFor(id)) <= 1
        /\ OneResultPerPipeline

\* the part that does not depend on the ids of the registry being unique
ReturnedBatchPerPipeline ==
    dpPc = "returned" => OneResultPerPipeline

\* an id listed several times in the request selects what it selects when
\* listed once (SpecRegistry)
RepeatedRequestIdsSelectOnce ==
    \A list \in RequestLists :
        Take(SelectSeqBy(registry, {e \in Range(registry) : ListContains(list, e.id)}),
             MAX_PARALLEL_DEPLOYMENTS) = Targets(registry, requested)

\* reachable: a returned batch with two results for one requested id
TwoResultsForOneId ==
    /\ dpPc = "returned"
    /\ \E id \in requested : Cardinality(ResultsFor(id)) = 2

(***************************************************************************)
(* Properties of the result of rollback_server (multi_server.rs 277-340)   *)
(***************************************************************************)
\* the stages whose command was executed, with whatever exit code, in order
ExecutedStages ==
    SelectSeqBy(AttemptedStages,
                {rbAttempts[i].stage : i \in {j \in 1..Len(rbAttempts) :
                                                 rbAttempts[j].result # "err"}})

\* the attempts that errored (connecting or executing failed)
ErroredAttempts == {i \in 1..Len(rbAttempts) : rbAttempts[i].result = "err"}

\* C38: the result of rollback_server lists in completed_stages exactly the
\* stages whose command was executed, whatever its exit code; success is
\* true exactly when that list is stop_daemon, remove_config,
\* uninstall_openclaw; and the error is that of the last stage that errored.
C38_CompletedStagesAreExecuted ==
    rbResult # <<>> =>
        /\ rbResult[1].completed_stages = ExecutedStages
        /\ rbResult[1].success = (rbResult[1].completed_stages = RollbackStages)
        /\ rbResult[1].error =
              (IF ErroredAttempts = {} THEN None
               ELSE rbAttempts[CHOOSE i \in ErroredAttempts :
                                   \A j \in ErroredAttempts : j <= i].stage)

\* the first and the last stage errored, the one between exited with a
\* non-zero code: it alone is listed, and the error is the last stage's
C38_Witness ==
    /\ rbResult # <<>>
    /\ rbAttempts[1].result = "err"
    /\ rbAttempts[2].result = "nonzero"
    /\ rbAttempts[3].result = "err"
    /\ rbResult[1].completed_stages = <<"remove_config">>
    /\ rbResult[1].error = "uninstall_openclaw"
    /\ ~rbResult[1].success

(***************************************************************************)
(* Properties of two saves through the one servers.tmp                     *)
(* (config.rs 41-69, multi_server.rs 42-45)                                *)
(***************************************************************************)
\* both calls were made and both have returned, one of them with Ok
BothSavesReturned ==
    /\ \A s \in Savers : svPc[s] \in {"done", "failed"}
    /\ \E s \in Savers : svPc[s] = "done"

\* call s returns Ok in this step
SaveReturnsOk(s) == svPc[s] = "rename" /\ svPc'[s] = "done"

\* C39: two saves running side by side leave servers.json equal to the
\* complete list of one of them, and a save returns Ok only when the file
\* its rename put in place holds its own complete list.
C39_ConcurrentSavesKeepOneList ==
    /\ [](BothSavesReturned =>
            /\ dirJson # 0
            /\ \E s \in Savers : inodes[dirJson] = NewContent(s))
    /\ [][\A s \in Savers :
            SaveReturnsOk(s) => inodes'[dirJson'] = NewContent(s)]_vars

\* the same for a save with no other save beside it
SingleSaveRenamesOwnList ==
    [][\A s \in Savers :
         (SaveReturnsOk(s) /\ \E o \in Savers : svPc[o] = "off") =>
             inodes'[dirJson'] = NewContent(s)]_vars

\* reachable: both saves have returned, one with Ok, and servers.json is
\* the complete list of neither
BothReturnedFileTorn ==
    /\ BothSavesReturned
    /\ dirJson # 0
    /\ \A s \in Savers : inodes[dirJson] # NewContent(s)

\* reachable: both saves have returned Ok
BothSavesOk == \A s \in Savers : svPc[s] = "done"

====
